---- MODULE Spec2Model ----
(***************************************************************************)
(* A model of goschtalt's meta.Object tree: key commands, ResolveCommands  *)
(* and Merge (pkg/meta/object.go).                                         *)
(*                                                                         *)
(* A Go map is iterated in an unspecified order, so every function that     *)
(* ranges over a map is modelled by the SET of outcomes it can return, one *)
(* per iteration order.  A Go map is a reference: merge writes into the    *)
(* receiver's map in place, so an outcome of merge also carries the        *)
(* receiver as every other holder of it sees it afterwards (recv).         *)
(***************************************************************************)
EXTENDS Integers, Sequences, FiniteSets, TLC

VARIABLES
    base,   \* the receiver tree as it was when the operation was called
    next,   \* the incoming tree (the argument)
    recv,   \* the receiver tree as seen through the caller's reference now
    rv,     \* the Object the operation returned
    err,    \* the error the operation returned
    argKey, \* the key getValidCmd was called with
    retCmd, \* the command getValidCmd returned
    op,     \* the operation that was applied ("none" before any)
    path,   \* the asks Fetch was called with
    retKind,\* the int Kind returned (0 before any call)
    retRaw, \* the native tree ToRaw returned
    conf,   \* the Config: files, tree, compiled, rawOpts, opts
    pre,    \* the Config as it was when the last call was made
    callArg,\* the argument of the last call on the Config
    ret,    \* what the last call on the Config returned
    pass,   \* the compile pass the last call made, if it made one
    everCompiled, \* a compile pass of this Config has succeeded
    mutex,  \* the goroutine that holds the Config's mutex, or Unlocked
    procs,  \* for each goroutine: where it is in its call, and its locals
    stable, \* the Config as the last call that wrote to it left it
    disk    \* the names of the files present in the directory of the file groups

\* The variables of the tree operations that take no incoming tree.
objVars == <<path, retKind, retRaw>>

\* The variables of the Config.
cfgVars == <<conf, pre, callArg, ret, pass, everCompiled, disk>>

\* The variables of the goroutines that call the Config.
procVars == <<mutex, procs, stable>>

vars == <<base, next, recv, rv, err, argKey, retCmd, op, objVars, cfgVars,
          procVars>>

----------------------------------------------------------------------------
(* Bounds of the input universe.                                           *)
MaxBaseArrayLen == 2
MaxNextArrayLen == 2

----------------------------------------------------------------------------
(* Constants of the program.                                               *)
redactedText == "REDACTED"

cmdSecret  == "secret"
cmdReplace == "replace"
cmdKeep    == "keep"
cmdFail    == "fail"
cmdAppend  == "append"
cmdPrepend == "prepend"
cmdSplice  == "splice"
cmdClear   == "clear"

NoErr             == "nil"
ErrConflict       == "a conflict has been detected"
ErrInvalidCommand == "invalid command"
ErrNotFound         == "not found"
ErrArrayOutOfBounds == "array index is out of bounds"

\* The two errors of strconv.Atoi.
ErrSyntax == "invalid syntax"
ErrRange  == "value out of range"

Array == 1
Map   == 2
Value == 3

\* The nil interface value of Object.Value.
NilValue == "<nil>"

----------------------------------------------------------------------------
(* Object.  Origins and Array are sequences, Map is a function from keys   *)
(* to Objects.  alloc names the slice and map fields that are not nil: Go  *)
(* tells a nil slice or map from an allocated empty one.                   *)
Object(origins, array, map, value, secret, alloc) ==
    [Origins |-> origins, Array |-> array, Map |-> map, Value |-> value,
     secret |-> secret, alloc |-> alloc]

\* Object{}: every field nil or zero.
ZeroObject == Object(<<>>, <<>>, <<>>, NilValue, FALSE, {})

\* A map with no entries, and map assignment m[k] = v.
EmptyMap == <<>>

\* A map assignment that drops the other entries.
MapPutAlone(m, k, v) == [x \in {k} |-> v]

MapPut(m, k, v) == [x \in (DOMAIN m) \cup {k} |-> IF x = k THEN v ELSE m[x]]

\* A Kind that looks at the Map before the Array.
KindMapFirst(o) ==
    IF 0 < Cardinality(DOMAIN o.Map) THEN Map
    ELSE IF 0 < Len(o.Array) THEN Array
    ELSE Value

Kind(o) ==
    IF 0 < Len(o.Array) THEN Array
    ELSE IF 0 < Cardinality(DOMAIN o.Map) THEN Map
    ELSE Value

----------------------------------------------------------------------------
(* Keys and commands.  A key is the triple the key text splits into:       *)
(* <<final key, directive token, secret token>>; a key with no command is  *)
(* <<name, "", "">>, which is also the final key a command resolves to.    *)
Key(name, directive, secretTok) == <<name, directive, secretTok>>

FinalKey(name) == Key(name, "", "")

Directives ==
    {cmdReplace, cmdKeep, cmdFail, cmdAppend, cmdPrepend, cmdSplice, cmdClear}

\* command{}: the zero command.
ZeroCommand == [cmd |-> "", final |-> FinalKey(""), secret |-> FALSE]

\* getCmd returns (command, error).
getCmd(key) ==
    IF key[2] \in Directives \cup {""} /\ key[3] \in {"", cmdSecret}
    THEN [err |-> NoErr,
          cmd |-> [cmd |-> key[2], final |-> FinalKey(key[1]),
                   secret |-> (key[3] = cmdSecret)]]
    ELSE [err |-> ErrInvalidCommand, cmd |-> ZeroCommand]

\* The commands getValidCmd accepts for each kind.
validList(kind) ==
    CASE kind = Map   -> {"", cmdFail, cmdKeep, cmdReplace, cmdSplice}
      [] kind = Array -> {"", cmdFail, cmdKeep, cmdReplace, cmdAppend, cmdPrepend}
      [] kind = Value -> {"", cmdFail, cmdKeep, cmdReplace}
      [] OTHER        -> {}

getValidCmd(key, obj) ==
    LET c == getCmd(key) IN
    IF c.err # NoErr THEN [err |-> c.err, cmd |-> ZeroCommand]
    ELSE IF c.cmd.cmd \in validList(Kind(obj)) THEN c
    ELSE [err |-> ErrInvalidCommand, cmd |-> ZeroCommand]

----------------------------------------------------------------------------
(* Outcomes.  A call returns (Object, error); on an error the code returns *)
(* Object{}.                                                               *)
Ret(o) == [err |-> NoErr, obj |-> o]

Fail(e) == [err |-> e, obj |-> ZeroObject]

(***************************************************************************)
(* resolveCommands: the set of (Object, error) it can return.              *)
(***************************************************************************)
\* A marking that makes every node it visits secret.
markSecretAlways(obj, secret) == [obj EXCEPT !.secret = TRUE]

\* if secret { obj.secret = true }
markSecret(obj, secret) == IF secret THEN [obj EXCEPT !.secret = TRUE] ELSE obj

RECURSIVE resolveCommands(_, _)
RECURSIVE resolveArray(_, _, _)
RECURSIVE resolveMap(_, _, _)

\* The Array loop from index i on, array being the slice built so far.
resolveArray(src, i, array) ==
    IF i > Len(src) THEN {[err |-> NoErr, val |-> array]}
    ELSE UNION { IF r.err # NoErr
                 THEN {[err |-> r.err, val |-> <<>>]}
                 ELSE resolveArray(src, i + 1, Append(array, r.obj))
               : r \in resolveCommands(src[i], FALSE) }

\* The Map loop over the keys not visited yet, m being the map built so far.
resolveMap(src, todo, m) ==
    IF todo = {} THEN {[err |-> NoErr, val |-> m]}
    ELSE UNION { LET c == getValidCmd(key, src[key]) IN
                 IF c.err # NoErr
                 THEN {[err |-> c.err, val |-> EmptyMap]}
                 ELSE UNION { IF r.err # NoErr
                              THEN {[err |-> r.err, val |-> EmptyMap]}
                              ELSE resolveMap(src, todo \ {key},
                                              MapPut(m, c.cmd.final, r.obj))
                            : r \in resolveCommands(src[key], c.cmd.secret) }
               : key \in todo }

resolveCommands(obj, secret) ==
    LET o == markSecret(obj, secret) IN
    CASE Kind(o) = Array ->
           { IF r.err # NoErr THEN Fail(r.err)
             ELSE Ret([o EXCEPT !.Array = r.val,
                                !.alloc = @ \cup {"Array"}])
           : r \in resolveArray(o.Array, 1, <<>>) }
      [] Kind(o) = Map ->
           { IF r.err # NoErr THEN Fail(r.err)
             ELSE Ret([o EXCEPT !.Map = r.val, !.alloc = @ \cup {"Map"}])
           : r \in resolveMap(o.Map, DOMAIN o.Map, EmptyMap) }
      [] OTHER -> {Ret(o)}

ResolveCommands(obj) == resolveCommands(obj, FALSE)

(***************************************************************************)
(* merge: the set of (Object, error) it can return, each with the receiver *)
(* as it is left (recv).                                                   *)
(***************************************************************************)
Out(e, o, r) == [err |-> e, obj |-> o, recv |-> r]

\* An append that puts the appended elements first.
appendSeqReversed(a, b) == b \o a

\* append(a, b...) of two slices: the elements, and whether the result is nil.
appendSeq(a, b) == a \o b

appendAlloc(o, field, a, b) ==
    IF Len(a \o b) > 0 \/ field \in o.alloc
    THEN {field} ELSE {}

\* A Value branch that keeps the receiver where the code takes the incoming tree.
mergeValueKeepsReceiver(cmd, obj, nxt) ==
    IF cmd.cmd = cmdFail THEN Out(ErrConflict, ZeroObject, obj)
    ELSE Out(NoErr, [obj EXCEPT !.secret = cmd.secret], obj)

\* A Value branch with no case for fail.
mergeValueNoFail(cmd, obj, nxt) ==
    LET picked == IF cmd.cmd \in {cmdReplace, ""} THEN nxt ELSE obj
    IN  Out(NoErr, [picked EXCEPT !.secret = cmd.secret], obj)

\* A Value branch that leaves the secret flag of the tree it picks as it is.
mergeValueKeepsFlag(cmd, obj, nxt) ==
    IF cmd.cmd = cmdFail THEN Out(ErrConflict, ZeroObject, obj)
    ELSE Out(NoErr, IF cmd.cmd \in {cmdReplace, ""} THEN nxt ELSE obj, obj)

\* The Value branch of merge.
mergeValue(cmd, obj, nxt) ==
    IF cmd.cmd = cmdFail THEN Out(ErrConflict, ZeroObject, obj)
    ELSE LET picked == IF cmd.cmd \in {cmdReplace, ""} THEN nxt ELSE obj
         IN  Out(NoErr, [picked EXCEPT !.secret = cmd.secret], obj)

\* The Array branch of merge, nxt being the incoming tree already resolved.
mergeArray(cmd, obj, nxt) ==
    CASE cmd.cmd \in {cmdAppend, ""} ->
           Out(NoErr,
               [obj EXCEPT
                  !.secret  = obj.secret \/ nxt.secret \/ cmd.secret,
                  !.Origins = appendSeq(obj.Origins, nxt.Origins),
                  !.Array   = appendSeq(obj.Array, nxt.Array),
                  !.alloc   = (@ \ {"Origins", "Array"})
                              \cup appendAlloc(obj, "Origins", obj.Origins, nxt.Origins)
                              \cup appendAlloc(obj, "Array", obj.Array, nxt.Array)],
               obj)
      [] cmd.cmd = cmdPrepend ->
           Out(NoErr,
               [obj EXCEPT
                  !.secret  = obj.secret \/ nxt.secret \/ cmd.secret,
                  !.Origins = appendSeq(nxt.Origins, obj.Origins),
                  !.Array   = appendSeq(nxt.Array, obj.Array),
                  !.alloc   = (@ \ {"Origins", "Array"})
                              \cup appendAlloc(nxt, "Origins", nxt.Origins, obj.Origins)
                              \cup appendAlloc(nxt, "Array", nxt.Array, obj.Array)],
               obj)
      [] cmd.cmd = cmdReplace -> Out(NoErr, nxt, obj)
      [] cmd.cmd = cmdFail    -> Out(ErrConflict, ZeroObject, obj)
      [] OTHER                -> Out(NoErr, obj, obj)

\* A kind-mismatch switch that has no case for the empty command.
mismatchActionNoDefault(c) ==
    CASE c \in {cmdSplice, cmdReplace} -> "take"
      [] c = cmdKeep                    -> "keep"
      [] c = cmdFail                    -> "fail"
      [] OTHER                          -> "skip"

\* A kind-mismatch switch whose keep case takes the incoming value.
mismatchActionKeepTakes(c) ==
    CASE c \in {cmdSplice, cmdReplace, "", cmdKeep} -> "take"
      [] c = cmdFail                                 -> "fail"
      [] OTHER                                       -> "skip"

\* What the kind-mismatch switch of the Map loop does for a command:
\* take the incoming value, leave the existing one, or fail.
mismatchAction(c) ==
    CASE c \in {cmdSplice, cmdReplace, ""} -> "take"
      [] c = cmdKeep                        -> "keep"
      [] c = cmdFail                        -> "fail"
      [] OTHER                              -> "skip"

RECURSIVE merge(_, _, _)
RECURSIVE mergeMap(_, _, _)

\* The splice loop over the keys of the incoming map not visited yet; m is
\* obj.Map as written so far.  Returns the error and obj.Map at the return.
mergeMap(m, todo, src) ==
    IF todo = {} THEN {[err |-> NoErr, val |-> m]}
    ELSE UNION {
      LET val == src[key]
          c   == getValidCmd(key, val)
          fin == c.cmd.final
      IN
      IF c.err # NoErr THEN {[err |-> c.err, val |-> m]}
      ELSE IF fin \notin DOMAIN m
      THEN UNION { IF r.err # NoErr THEN {[err |-> r.err, val |-> m]}
                   ELSE mergeMap(MapPut(m, fin, r.obj), todo \ {key}, src)
                 : r \in resolveCommands(val, c.cmd.secret) }
      ELSE IF Kind(m[fin]) = Kind(val)
      THEN UNION { IF r.err # NoErr
                   THEN {[err |-> r.err, val |-> MapPut(m, fin, r.recv)]}
                   ELSE mergeMap(MapPut(m, fin, r.obj), todo \ {key}, src)
                 : r \in merge(c.cmd, m[fin], val) }
      ELSE CASE mismatchAction(c.cmd.cmd) = "take" ->
                  UNION { IF r.err # NoErr THEN {[err |-> r.err, val |-> m]}
                          ELSE mergeMap(MapPut(m, fin, r.obj), todo \ {key}, src)
                        : r \in resolveCommands(val, c.cmd.secret) }
             [] mismatchAction(c.cmd.cmd) = "keep" ->
                  mergeMap(MapPut(m, fin, m[fin]), todo \ {key}, src)
             [] mismatchAction(c.cmd.cmd) = "fail" ->
                  {[err |-> ErrConflict, val |-> m]}
             [] OTHER -> mergeMap(m, todo \ {key}, src)
      : key \in todo }

merge(cmd, obj, nxt) ==
    CASE Kind(obj) = Value -> {mergeValue(cmd, obj, nxt)}
      [] Kind(obj) = Array ->
           { IF r.err # NoErr THEN Out(r.err, ZeroObject, obj)
             ELSE mergeArray(cmd, obj, r.obj)
           : r \in resolveCommands(nxt, obj.secret) }
      [] OTHER ->
           CASE cmd.cmd \in {cmdSplice, ""} ->
                  { LET left == [obj EXCEPT !.Map = r.val] IN
                    IF r.err # NoErr THEN Out(r.err, ZeroObject, left)
                    ELSE Out(NoErr, [left EXCEPT !.secret = cmd.secret], left)
                  : r \in mergeMap(obj.Map, DOMAIN nxt.Map, nxt.Map) }
             [] cmd.cmd = cmdReplace ->
                  { IF r.err # NoErr THEN Out(r.err, ZeroObject, obj)
                    ELSE Out(NoErr, [r.obj EXCEPT !.secret = cmd.secret], obj)
                  : r \in resolveCommands(nxt, FALSE) }
             [] cmd.cmd = cmdFail -> {Out(ErrConflict, ZeroObject, obj)}
             [] OTHER -> {Out(NoErr, [obj EXCEPT !.secret = cmd.secret], obj)}

\* The tree Merge returns for a clear command: Object{Origins: []Origin{}}.
ClearedObject == Object(<<>>, <<>>, <<>>, NilValue, FALSE, {"Origins"})

\* The scan of Merge for a clear command over the keys not visited yet.
RECURSIVE clearScan(_, _, _)
clearScan(obj, nxt, todo) ==
    IF todo = {} THEN merge(ZeroCommand, obj, nxt)
    ELSE UNION { LET c == getCmd(k) IN
                 IF c.err # NoErr THEN {Out(c.err, ZeroObject, obj)}
                 ELSE IF c.cmd.cmd = cmdClear THEN {Out(NoErr, ClearedObject, obj)}
                 ELSE clearScan(obj, nxt, todo \ {k})
               : k \in todo }

Merge(obj, nxt) == clearScan(obj, nxt, DOMAIN nxt.Map)

(***************************************************************************)
(* Fetch.  A path segment is a key; its text is its name when it carries   *)
(* no command tokens.  strconv.Atoi reads the characters of that text.     *)
(***************************************************************************)
\* The characters of the names used as path segments.
Chars(name) ==
    CASE name = "0"   -> <<"0">>
      [] name = "1"   -> <<"1">>
      [] name = "2"   -> <<"2">>
      [] name = "-1"  -> <<"-", "1">>
      [] name = "+0"  -> <<"+", "0">>
      [] name = "1x"  -> <<"1", "x">>
      [] name = "9223372036854775808" ->
           <<"9", "2", "2", "3", "3", "7", "2", "0", "3", "6",
             "8", "5", "4", "7", "7", "5", "8", "0", "8">>
      [] name = ""    -> <<>>
      [] OTHER        -> <<name>>

DigitOf(c) ==
    CASE c = "0" -> 0 [] c = "1" -> 1 [] c = "2" -> 2 [] c = "3" -> 3
      [] c = "4" -> 4 [] c = "5" -> 5 [] c = "6" -> 6 [] c = "7" -> 7
      [] c = "8" -> 8 [] c = "9" -> 9 [] OTHER -> -1

\* The decimal digits of the largest int (2^63 - 1).
MaxIntDigits == <<9, 2, 2, 3, 3, 7, 2, 0, 3, 6, 8, 5, 4, 7, 7, 5, 8, 0, 7>>

RECURSIVE stripZeros(_)
stripZeros(ds) ==
    IF Len(ds) > 1 /\ ds[1] = 0 THEN stripZeros(Tail(ds)) ELSE ds

\* ds > limit as decimal numbers of the same number of digits.
RECURSIVE digitsGreater(_, _)
digitsGreater(ds, limit) ==
    IF Len(ds) = 0 THEN FALSE
    ELSE IF ds[1] # limit[1] THEN ds[1] > limit[1]
    ELSE digitsGreater(Tail(ds), Tail(limit))

\* The magnitude is beyond the int range: more than 2^63 - 1 (2^63 for a
\* negative number).
outOfRange(ds, negative) ==
    LET d     == stripZeros(ds)
        limit == IF negative
                 THEN [MaxIntDigits EXCEPT ![Len(MaxIntDigits)] = 8]
                 ELSE MaxIntDigits
    IN  \/ Len(d) > Len(limit)
        \/ Len(d) = Len(limit) /\ digitsGreater(d, limit)

\* An index is only compared with the length of an array: a magnitude of
\* more than SaturatedIndex is kept as SaturatedIndex.
SaturatedIndex == 1000

RECURSIVE digitsValue(_, _)
digitsValue(ds, acc) ==
    IF Len(ds) = 0 THEN acc
    ELSE digitsValue(Tail(ds),
                     IF acc * 10 + ds[1] > SaturatedIndex THEN SaturatedIndex
                     ELSE acc * 10 + ds[1])

\* A conversion that drops the sign of the number.
AtoiUnsigned(seg) ==
    LET cs     == Chars(seg[1])
        signed == Len(cs) > 0 /\ cs[1] \in {"+", "-"}
        body   == IF signed THEN Tail(cs) ELSE cs
        ds     == [i \in DOMAIN body |-> DigitOf(body[i])]
    IN  IF seg[2] # "" \/ seg[3] # "" THEN [err |-> ErrSyntax, val |-> 0]
        ELSE IF Len(body) = 0 \/ \E i \in DOMAIN ds : ds[i] < 0
        THEN [err |-> ErrSyntax, val |-> 0]
        ELSE IF outOfRange(ds, FALSE) THEN [err |-> ErrRange, val |-> 0]
        ELSE [err |-> NoErr, val |-> digitsValue(ds, 0)]

\* strconv.Atoi: (int, error).
Atoi(seg) ==
    LET cs     == Chars(seg[1])
        signed == Len(cs) > 0 /\ cs[1] \in {"+", "-"}
        body   == IF signed THEN Tail(cs) ELSE cs
        ds     == [i \in DOMAIN body |-> DigitOf(body[i])]
        neg    == signed /\ cs[1] = "-"
    IN  IF seg[2] # "" \/ seg[3] # "" THEN [err |-> ErrSyntax, val |-> 0]
        ELSE IF Len(body) = 0 \/ \E i \in DOMAIN ds : ds[i] < 0
        THEN [err |-> ErrSyntax, val |-> 0]
        ELSE IF outOfRange(ds, neg) THEN [err |-> ErrRange, val |-> 0]
        ELSE [err |-> NoErr,
              val |-> IF neg THEN 0 - digitsValue(ds, 0) ELSE digitsValue(ds, 0)]

RECURSIVE fetch(_, _)
fetch(obj, asks) ==
    IF Len(asks) = 0 THEN Ret(obj)
    ELSE CASE Kind(obj) = Map /\ asks[1] \in DOMAIN obj.Map ->
                fetch(obj.Map[asks[1]], Tail(asks))
           [] Kind(obj) = Array ->
                LET n == Atoi(asks[1]) IN
                IF n.err # NoErr THEN Fail(n.err)
                ELSE IF 0 <= n.val /\ n.val < Len(obj.Array)
                THEN fetch(obj.Array[n.val + 1], Tail(asks))
                ELSE Fail(ErrArrayOutOfBounds)
           [] OTHER -> Fail(ErrNotFound)

Fetch(obj, asks) == fetch(obj, asks)

(***************************************************************************)
(* ToRaw and ObjectFromRaw.  A native tree is a []any, a map[string]any or *)
(* any other value.                                                        *)
(***************************************************************************)
RawSeq(elems) == [type |-> "[]any", seq |-> elems, map |-> <<>>, val |-> NilValue]
RawMap(m)     == [type |-> "map[string]any", seq |-> <<>>, map |-> m, val |-> NilValue]
RawVal(v)     == [type |-> "any", seq |-> <<>>, map |-> <<>>, val |-> v]

\* A conversion that hands out the elements of an Array last to first.
RECURSIVE ToRawReversed(_)
ToRawReversed(obj) ==
    CASE Kind(obj) = Array ->
           RawSeq([i \in DOMAIN obj.Array |->
                      ToRawReversed(obj.Array[Len(obj.Array) + 1 - i])])
      [] Kind(obj) = Map ->
           RawMap([k \in DOMAIN obj.Map |-> ToRawReversed(obj.Map[k])])
      [] OTHER -> RawVal(obj.Value)

RECURSIVE ToRaw(_)
ToRaw(obj) ==
    CASE Kind(obj) = Array -> RawSeq([i \in DOMAIN obj.Array |-> ToRaw(obj.Array[i])])
      [] Kind(obj) = Map   -> RawMap([k \in DOMAIN obj.Map |-> ToRaw(obj.Map[k])])
      [] OTHER             -> RawVal(obj.Value)

RECURSIVE ObjectFromRaw(_)
ObjectFromRaw(in) ==
    CASE in.type = "[]any" ->
           Object(<<>>, [i \in DOMAIN in.seq |-> ObjectFromRaw(in.seq[i])], <<>>,
                  NilValue, FALSE, {"Origins", "Array"})
      [] in.type = "map[string]any" ->
           Object(<<>>, <<>>, [k \in DOMAIN in.map |-> ObjectFromRaw(in.map[k])],
                  NilValue, FALSE, {"Origins", "Map"})
      [] OTHER ->
           Object(<<>>, <<>>, <<>>, in.val, FALSE, {"Origins"})

(***************************************************************************)
(* ToRedacted.                                                             *)
(***************************************************************************)
\* A redaction that lets the value of the node through.
redactedLeafKeepsValue(obj) ==
    Object(<<>>, <<>>, <<>>, obj.Value, TRUE, {"Origins"})

\* The leaf a secret node is replaced by.
redactedLeaf(obj) ==
    Object(<<>>, <<>>, <<>>, redactedText, TRUE, {"Origins"})

RECURSIVE ToRedacted(_)
ToRedacted(obj) ==
    IF obj.secret THEN redactedLeaf(obj)
    ELSE CASE Kind(obj) = Array ->
                [obj EXCEPT !.Array = [i \in DOMAIN obj.Array |->
                                          ToRedacted(obj.Array[i])],
                            !.alloc = @ \cup {"Array"}]
           [] Kind(obj) = Map ->
                [obj EXCEPT !.Map = [k \in DOMAIN obj.Map |->
                                        ToRedacted(obj.Map[k])],
                            !.alloc = @ \cup {"Map"}]
           [] OTHER -> obj

(***************************************************************************)
(* AlterKeyCase.  Two keys that convert to the same key overwrite each     *)
(* other in the order the map is iterated: the set of trees it can return. *)
(***************************************************************************)
\* The conversion functions: lower case, and one that changes nothing.
Lower(name) ==
    CASE name = "A" -> "a" [] name = "B" -> "b" [] name = "C" -> "c"
      [] OTHER -> name

to(fn, key) ==
    IF fn = "strings.ToLower" THEN Key(Lower(key[1]), key[2], key[3]) ELSE key

RECURSIVE AlterKeyCase(_, _)
RECURSIVE alterArray(_, _, _, _)
RECURSIVE alterMap(_, _, _, _)

alterArray(src, i, array, fn) ==
    IF i > Len(src) THEN {array}
    ELSE UNION { alterArray(src, i + 1, Append(array, r), fn)
               : r \in AlterKeyCase(src[i], fn) }

alterMap(src, todo, m, fn) ==
    IF todo = {} THEN {m}
    ELSE UNION { UNION { alterMap(src, todo \ {key}, MapPut(m, to(fn, key), r), fn)
                       : r \in AlterKeyCase(src[key], fn) }
               : key \in todo }

AlterKeyCase(obj, fn) ==
    CASE Kind(obj) = Array ->
           { [obj EXCEPT !.Array = a, !.alloc = @ \cup {"Array"}]
           : a \in alterArray(obj.Array, 1, <<>>, fn) }
      [] Kind(obj) = Map ->
           { [obj EXCEPT !.Map = m, !.alloc = @ \cup {"Map"}]
           : m \in alterMap(obj.Map, DOMAIN obj.Map, EmptyMap, fn) }
      [] OTHER -> {obj}

(***************************************************************************)
(* Config (goschtalt.go).  An Option is modelled by what applying it does  *)
(* to the options: it appends to a list field, sets a field, or fails.     *)
(* A record has a name, the tree its fetch leaves in it, and whether its   *)
(* fetch fails; a file group has its records and whether reading it fails. *)
(***************************************************************************)
ErrNotCompiled == "not compiled"
ErrOption      == "option error"
ErrFileGroup   == "file group error"
ErrRecordFetch == "record fetch error"
ErrExpansion   == "expansion depth exceeded"

record(name, tree, bad) == [name |-> name, tree |-> tree, bad |-> bad]

Option(field, arg) == [field |-> field, arg |-> arg]

\* options{decoders: newRegistry(), encoders: newRegistry()}
ZeroOptions ==
    [defaults |-> <<>>, values |-> <<>>, filegroups |-> <<>>,
     expansions |-> <<>>, sorter |-> "", keySwizzler |-> "",
     keyDelimiter |-> "", autoCompile |-> FALSE]

alwaysOptions ==
    <<Option("sorter", "natural"), Option("keySwizzler", "unchanged"),
      Option("keyDelimiter", ".")>>

DefaultOptions == <<>>

\* opt.apply(&cfg): (options, error).
apply(opt, cfg) ==
    CASE opt.field = "error" -> [err |-> ErrOption, cfg |-> cfg]
      [] opt.field \in {"defaults", "values", "filegroups", "expansions"} ->
           [err |-> NoErr,
            cfg |-> [cfg EXCEPT ![opt.field] = Append(@, opt.arg)]]
      [] OTHER ->
           [err |-> NoErr, cfg |-> [cfg EXCEPT ![opt.field] = opt.arg]]

\* The loop of With over the options in effect.
RECURSIVE applyAll(_, _)
applyAll(full, cfg) ==
    IF full = <<>> THEN [err |-> NoErr, cfg |-> cfg]
    ELSE LET r == apply(Head(full), cfg) IN
         IF r.err # NoErr THEN r ELSE applyAll(Tail(full), r.cfg)

\* The records of a file group whose files are present when it is read.
RECURSIVE onDisk(_)
onDisk(records) ==
    IF records = <<>> THEN <<>>
    ELSE (IF Head(records).name \in disk THEN <<Head(records)>> ELSE <<>>)
         \o onDisk(Tail(records))

\* filegroupsToRecords: ([]record, error).
RECURSIVE filegroupsToRecords(_)
filegroupsToRecords(groups) ==
    IF groups = <<>> THEN [err |-> NoErr, val |-> <<>>]
    ELSE IF Head(groups).bad THEN [err |-> ErrFileGroup, val |-> <<>>]
    ELSE LET r == filegroupsToRecords(Tail(groups)) IN
         IF r.err # NoErr THEN r
         ELSE [err |-> NoErr, val |-> onDisk(Head(groups).records) \o r.val]

\* The rank of a record name in each order of names: the natural order
\* reads the number in the name, the lexical one compares character by
\* character.
NameRank(sorter, name) ==
    IF sorter = "lexical"
    THEN CASE name = "1.json" -> 1 [] name = "10.json" -> 2
           [] name = "2.json" -> 3 [] OTHER -> 4
    ELSE CASE name = "1.json" -> 1 [] name = "2.json" -> 2
           [] name = "10.json" -> 3 [] OTHER -> 4

\* c.opts.sorter(a, b): a sorts before b.
less(sorter, a, b) == NameRank(sorter, a) < NameRank(sorter, b)

\* An insertion that puts a record before the records of the same name.
RECURSIVE insertBeforeEqual(_, _, _)
insertBeforeEqual(sorter, sorted, r) ==
    IF sorted = <<>> THEN <<r>>
    ELSE IF ~less(sorter, Head(sorted).name, r.name) THEN <<r>> \o sorted
    ELSE <<Head(sorted)>> \o insertBeforeEqual(sorter, Tail(sorted), r)

\* sort.SliceStable: r goes after every record that does not sort after it.
RECURSIVE insertStable(_, _, _)
insertStable(sorter, sorted, r) ==
    IF sorted = <<>> THEN <<r>>
    ELSE IF less(sorter, r.name, Head(sorted).name) THEN <<r>> \o sorted
    ELSE <<Head(sorted)>> \o insertStable(sorter, Tail(sorted), r)

RECURSIVE sortStable(_, _, _)
sortStable(sorter, a, sorted) ==
    IF a = <<>> THEN sorted
    ELSE sortStable(sorter, Tail(a), insertStable(sorter, sorted, Head(a)))

\* The sorter getSorter makes.
getSorter(sorter, a) == sortStable(sorter, a, <<>>)

\* ToExpanded: (Object, error).  An expansion replaces the value it names by
\* another; one that replaces a value by itself never ends and fails.
RECURSIVE expandNode(_, _)
expandNode(obj, exp) ==
    [obj EXCEPT
       !.Array = [i \in DOMAIN obj.Array |-> expandNode(obj.Array[i], exp)],
       !.Map   = [k \in DOMAIN obj.Map |-> expandNode(obj.Map[k], exp)],
       !.Value = IF obj.Value = exp.from THEN exp.to ELSE obj.Value]

RECURSIVE holdsValue(_, _)
holdsValue(obj, v) ==
    \/ Kind(obj) = Value /\ obj.Value = v
    \/ Kind(obj) = Array /\ \E i \in DOMAIN obj.Array : holdsValue(obj.Array[i], v)
    \/ Kind(obj) = Map /\ \E k \in DOMAIN obj.Map : holdsValue(obj.Map[k], v)

ToExpanded(obj, exp) ==
    IF exp.from = exp.to /\ holdsValue(obj, exp.from) THEN Fail(ErrExpansion)
    ELSE Ret(expandNode(obj, exp))

\* A loop that applies the expansions last to first.
RECURSIVE expandAllReversed(_, _)
expandAllReversed(obj, exps) ==
    IF exps = <<>> THEN Ret(obj)
    ELSE LET r == ToExpanded(obj, exps[Len(exps)]) IN
         IF r.err # NoErr THEN r
         ELSE expandAllReversed(r.obj, SubSeq(exps, 1, Len(exps) - 1))

\* for _, exp := range c.opts.expansions { t, err = t.ToExpanded(...) }
RECURSIVE expandAll(_, _)
expandAll(obj, exps) ==
    IF exps = <<>> THEN Ret(obj)
    ELSE LET r == ToExpanded(obj, Head(exps)) IN
         IF r.err # NoErr THEN r ELSE expandAll(r.obj, Tail(exps))

\* What a compile pass leaves: its error, the files, tree and compiled flag
\* of the Config when it returns, the records it merged in order, and the
\* snapshot each record's fetch was given.
Pass(e, files, tree, compiled, order, seen) ==
    [err |-> e, files |-> files, tree |-> tree, compiled |-> compiled,
     order |-> order, seen |-> seen]

NoPass == Pass(NoErr, <<>>, ZeroObject, FALSE, <<>>, <<>>)

\* The pass ran to its end.
succeeded(p) == p.err = NoErr /\ p.compiled

\* The loop of compile over the records from index i on.
RECURSIVE compileLoop(_, _, _, _, _, _)
compileLoop(c, full, i, merged, files, seen) ==
    LET aborted(e) == Pass(e, c.files, c.tree, c.compiled, SubSeq(full, 1, i - 1), seen)
    IN
    IF i > Len(full)
    THEN LET r == expandAll(merged, c.opts.expansions) IN
         IF r.err # NoErr
         THEN {Pass(r.err, c.files, c.tree, c.compiled, full, seen)}
         ELSE {Pass(NoErr, files, r.obj, TRUE, full, seen)}
    ELSE LET incremental == expandAll(merged, c.opts.expansions) IN
         IF incremental.err # NoErr THEN {aborted(incremental.err)}
         ELSE IF full[i].bad
         THEN {Pass(ErrRecordFetch, c.files, c.tree, c.compiled,
                    SubSeq(full, 1, i - 1), Append(seen, incremental.obj))}
         ELSE UNION {
                UNION { IF out.err # NoErr
                        THEN {Pass(out.err, c.files, c.tree, c.compiled,
                                   SubSeq(full, 1, i - 1),
                                   Append(seen, incremental.obj))}
                        ELSE compileLoop(c, full, i + 1, out.obj,
                                         Append(files, full[i].name),
                                         Append(seen, incremental.obj))
                      : out \in Merge(merged, subtree) }
              : subtree \in AlterKeyCase(full[i].tree, c.opts.keySwizzler) }

\* Config.compile: the set of passes it can make from the Config c.
compile(c) ==
    LET got == filegroupsToRecords(c.opts.filegroups) IN
    IF got.err # NoErr
    THEN {Pass(got.err, c.files, c.tree, c.compiled, <<>>, <<>>)}
    ELSE LET cfgs   == getSorter(c.opts.sorter, got.val \o c.opts.values)
             full   == c.opts.defaults \o cfgs
             merged == Object(<<>>, <<>>, <<>>, NilValue, FALSE, {"Map"})
         IN  IF Len(full) = 0
             THEN {Pass(NoErr, c.files, merged, TRUE, <<>>, <<>>)}
             ELSE compileLoop(c, full, 1, merged, <<>>, <<>>)

\* The Config New builds before it calls With.
NewConfig ==
    [files |-> <<>>, tree |-> ZeroObject, compiled |-> FALSE,
     rawOpts |-> <<>>, opts |-> ZeroOptions]

\* A store that empties the Config when the pass failed.
storedResetsOnError(c, p) ==
    IF p.err # NoErr
    THEN [c EXCEPT !.files = <<>>, !.tree = ZeroObject, !.compiled = FALSE]
    ELSE [c EXCEPT !.files = p.files, !.tree = p.tree, !.compiled = p.compiled]

\* The Config with the result of a compile pass stored in it.
stored(c, p) ==
    [c EXCEPT !.files = p.files, !.tree = p.tree, !.compiled = p.compiled]

\* Config.With: the set of (Config, error, pass) it can return with.
With(c, opts) ==
    LET raw  == c.rawOpts \o opts
        full == alwaysOptions \o DefaultOptions \o c.rawOpts \o opts
        r    == applyAll(full, ZeroOptions)
    IN  IF r.err # NoErr THEN {[err |-> r.err, c |-> c, pass |-> NoPass]}
        ELSE LET c2 == [c EXCEPT !.opts = r.cfg, !.rawOpts = raw] IN
             IF c2.opts.autoCompile
             THEN {[err |-> p.err, c |-> stored(c2, p), pass |-> p]
                   : p \in compile(c2)}
             ELSE {[err |-> NoErr, c |-> c2, pass |-> NoPass]}

\* A ShowOrder that does not look at the compiled flag.
ShowOrderUnguarded(c) == [err |-> NoErr, val |-> c.files]

\* Config.ShowOrder: ([]string, error).
ShowOrder(c) ==
    IF ~c.compiled THEN [err |-> ErrNotCompiled, val |-> <<>>]
    ELSE [err |-> NoErr, val |-> c.files]

\* The guard of Unmarshal and of Marshal on a Config that is not compiled.
notCompiledGuard(c) == IF ~c.compiled THEN ErrNotCompiled ELSE NoErr

\* Config.Unmarshal(key, result): the error, and the tree decoded into result.
Unmarshal(c, asks) ==
    IF notCompiledGuard(c) # NoErr THEN Fail(notCompiledGuard(c))
    ELSE Fetch(c.tree, asks)

\* Config.Marshal: the error, and the tree that is encoded.
Marshal(c, redact) ==
    IF notCompiledGuard(c) # NoErr THEN Fail(notCompiledGuard(c))
    ELSE Ret(IF redact THEN ToRedacted(c.tree) ELSE c.tree)

----------------------------------------------------------------------------
(* The input universe: the trees the operations are applied to.            *)

\* Origins of the nodes of the receiver and of the incoming tree.
OriginBase == [File |-> "base.json", Line |-> 1, Col |-> 1]
OriginNext == [File |-> "next.json", Line |-> 2, Col |-> 1]

Leaf(origin, v, s) == Object(<<origin>>, <<>>, <<>>, v, s, {"Origins"})

ArrayOf(origin, elems, s) ==
    Object(<<origin>>, elems, <<>>, NilValue, s, {"Origins", "Array"})

MapOf(origin, m, s) ==
    Object(<<origin>>, <<>>, m, NilValue, s, {"Origins", "Map"})

\* One-entry and two-entry maps.
Map1(k, v) == [x \in {k} |-> v]
Map2(k1, v1, k2, v2) == [x \in {k1, k2} |-> IF x = k1 THEN v1 ELSE v2]

\* Trees of kind Value that hold nothing: Object{}, the tree a clear leaves,
\* the tree compile starts from, and a decoded empty array.
CompileEmpty == Object(<<>>, <<>>, <<>>, NilValue, FALSE, {"Map"})
EmptyArrayLeaf(origin) ==
    Object(<<origin>>, <<>>, <<>>, NilValue, FALSE, {"Origins", "Array"})
EmptyTrees == {ZeroObject, ClearedObject, CompileEmpty}

BaseValues == <<"p1", "p2", "p3", "p4">>
NextValues == <<"n1", "n2", "n3", "n4">>

BaseElems(n) == [i \in 1..n |-> Leaf(OriginBase, BaseValues[i], FALSE)]
NextElems(n) == [i \in 1..n |-> Leaf(OriginNext, NextValues[i], FALSE)]

BaseLeaves == {Leaf(OriginBase, "p1", s) : s \in BOOLEAN}
BaseArrays ==
    {ArrayOf(OriginBase, BaseElems(n), s) : n \in 1..MaxBaseArrayLen, s \in BOOLEAN}
BaseInnerMaps ==
    {MapOf(OriginBase, Map1(FinalKey("c"), Leaf(OriginBase, "p2", FALSE)), s)
        : s \in BOOLEAN}

\* What a receiver map holds under "a".
BaseChildren ==
    BaseLeaves
    \cup {ArrayOf(OriginBase, BaseElems(1), s) : s \in BOOLEAN}
    \cup BaseInnerMaps

BaseMaps ==
    {MapOf(OriginBase, Map1(FinalKey("a"), ch), s)
        : ch \in BaseChildren, s \in BOOLEAN}
    \cup
    {MapOf(OriginBase,
           Map2(FinalKey("a"), ch, FinalKey("b"), Leaf(OriginBase, "p3", FALSE)), s)
        : ch \in BaseChildren, s \in BOOLEAN}

BaseTrees == EmptyTrees \cup BaseLeaves \cup BaseArrays \cup BaseMaps

\* The directive tokens a key of the incoming tree carries: the known ones,
\* none, and one that is not a command.
DirectiveTokens == Directives \cup {"", "bogus"}
SecretTokens == {"", cmdSecret}

NextInnerMaps ==
    {MapOf(OriginNext, Map1(Key("c", d, st), Leaf(OriginNext, "n3", FALSE)), FALSE)
        : d \in {"", cmdClear}, st \in SecretTokens}

NextArrays ==
    {ArrayOf(OriginNext, NextElems(n), FALSE) : n \in 1..MaxNextArrayLen}
    \cup
    {ArrayOf(OriginNext,
             <<MapOf(OriginNext,
                     Map1(Key("c", "", cmdSecret), Leaf(OriginNext, "n3", FALSE)),
                     FALSE)>>,
             FALSE)}

\* What the incoming map holds under its first key.
NextChildren ==
    {Leaf(OriginNext, "n1", FALSE), EmptyArrayLeaf(OriginNext)}
    \cup NextArrays \cup NextInnerMaps

FirstKeys == {Key("a", d, st) : d \in DirectiveTokens, st \in SecretTokens}

\* A second entry of the incoming map.
SecondEntries ==
    {<<Key("b", d, ""), Leaf(OriginNext, "n4", FALSE)>>
        : d \in {"", cmdClear, "bogus", cmdFail}}
    \cup
    {<<Key("c", "", cmdSecret), Leaf(OriginNext, "n4", FALSE)>>,
     <<Key("a", "", ""), Leaf(OriginNext, "n4", FALSE)>>,
     <<Key("a", cmdReplace, ""), Leaf(OriginNext, "n4", FALSE)>>}

NextMaps ==
    {MapOf(OriginNext, Map1(k, ch), FALSE) : k \in FirstKeys, ch \in NextChildren}
    \cup
    {MapOf(OriginNext, Map2(k, ch, e[1], e[2]), FALSE)
        : k \in FirstKeys, ch \in NextChildren,
          e \in {x \in SecondEntries : TRUE}}

NextTrees ==
    EmptyTrees \cup {Leaf(OriginNext, "n1", FALSE)} \cup NextArrays
    \cup {t \in NextMaps : Cardinality(DOMAIN t.Map) \in {1, 2}}

\* The trees the operations that take no incoming tree are applied to: the
\* receivers above, trees with empty arrays and maps inside, deeper trees,
\* maps whose keys differ only in case or are digits, and Objects with more
\* than one of Array, Map and Value set.
EmptyMapNode(origin) ==
    Object(<<origin>>, <<>>, <<>>, NilValue, FALSE, {"Origins", "Map"})

TreesWithEmpties ==
    {MapOf(OriginBase, Map1(FinalKey("a"), e), FALSE)
        : e \in {EmptyArrayLeaf(OriginBase), EmptyMapNode(OriginBase)}}
    \cup
    {ArrayOf(OriginBase, <<e, Leaf(OriginBase, "p2", FALSE)>>, FALSE)
        : e \in {EmptyArrayLeaf(OriginBase), EmptyMapNode(OriginBase)}}

DeepTrees ==
    {MapOf(OriginBase,
           Map2(FinalKey("a"),
                ArrayOf(OriginBase,
                        <<MapOf(OriginBase,
                                Map1(FinalKey("c"), Leaf(OriginBase, "p2", s1)),
                                s2),
                          Leaf(OriginBase, "p1", FALSE)>>,
                        FALSE),
                FinalKey("0"), Leaf(OriginBase, "p3", FALSE)),
           FALSE)
        : s1 \in BOOLEAN, s2 \in BOOLEAN}
    \cup
    {ArrayOf(OriginBase,
             <<ArrayOf(OriginBase, BaseElems(n), s), Leaf(OriginBase, "q1", FALSE)>>,
             FALSE)
        : n \in 1..MaxBaseArrayLen, s \in BOOLEAN}

CaseTrees ==
    {MapOf(OriginBase,
           Map2(FinalKey("A"), Leaf(OriginBase, "p1", FALSE),
                FinalKey("a"), Leaf(OriginBase, "p2", FALSE)), FALSE),
     MapOf(OriginBase,
           Map1(FinalKey("A"),
                MapOf(OriginBase,
                      Map1(FinalKey("C"), Leaf(OriginBase, "p2", FALSE)), FALSE)),
           FALSE)}

MixedObjects ==
    {Object(<<OriginBase>>, a, m, v, FALSE, {"Origins", "Array", "Map"})
        : a \in {<<>>, BaseElems(1)},
          m \in {EmptyMap, Map1(FinalKey("a"), Leaf(OriginBase, "p2", FALSE))},
          v \in {NilValue, "p4"}}
    \cup
    {Object(<<OriginBase>>, <<>>, <<>>, v, FALSE, al)
        : v \in {NilValue, "p4"}, al \in SUBSET {"Origins", "Array", "Map"}}

ObjectTrees ==
    BaseTrees \cup TreesWithEmpties \cup DeepTrees \cup CaseTrees \cup MixedObjects

\* The paths Fetch is asked for: up to MaxPathLen segments.
MaxPathLen == 3

SegmentNames == {"a", "c", "0", "1", "-1", "+0", "1x", "9223372036854775808"}

Segments == {FinalKey(n) : n \in SegmentNames} \cup {Key("a", "", cmdSecret)}

Paths == UNION {[1..n -> Segments] : n \in 0..MaxPathLen}

----------------------------------------------------------------------------
(* The state machine: one operation is applied to the drawn trees.         *)
NoObjCall ==
    /\ path = <<>>
    /\ retKind = 0
    /\ retRaw = RawVal(NilValue)

Returned(method, e, val) == [method |-> method, err |-> e, val |-> val]

\* The goroutines, and the value of a mutex nobody holds.
Procs == {1, 2}

Unlocked == 0

\* A goroutine that is in no call.
Idle ==
    [pc |-> "idle", method |-> "", opts |-> <<>>, cfg |-> ZeroOptions,
     pass |-> NoPass, obs |-> NewConfig, err |-> NoErr]

NoProcs ==
    /\ mutex = Unlocked
    /\ procs = [p \in Procs |-> Idle]
    /\ stable = NewConfig

\* The files the directory of the file groups holds at the start.
DiskFiles == {"1.json", "2.json"}

NoCfgCall ==
    /\ disk = DiskFiles
    /\ conf = NewConfig
    /\ pre = NewConfig
    /\ callArg = <<>>
    /\ ret = Returned("none", NoErr, <<>>)
    /\ pass = NoPass
    /\ everCompiled = FALSE
    /\ NoProcs

Init ==
    /\ base \in BaseTrees
    /\ next \in NextTrees
    /\ recv = base
    /\ rv = ZeroObject
    /\ err = NoErr
    /\ argKey = FinalKey("")
    /\ retCmd = ZeroCommand
    /\ op = "none"
    /\ NoObjCall
    /\ NoCfgCall

\* merged, err := base.Merge(next)
DoMerge ==
    /\ op = "none"
    /\ \E out \in Merge(base, next) :
          /\ rv' = out.obj
          /\ err' = out.err
          /\ recv' = out.recv
    /\ op' = "Merge"
    /\ UNCHANGED <<base, next, argKey, retCmd, objVars, cfgVars, procVars>>

\* resolved, err := next.ResolveCommands()
DoResolveCommands ==
    /\ op = "none"
    /\ \E out \in ResolveCommands(next) :
          /\ rv' = out.obj
          /\ err' = out.err
    /\ op' = "ResolveCommands"
    /\ UNCHANGED <<base, next, recv, argKey, retCmd, objVars, cfgVars, procVars>>

\* cmd, err := getValidCmd(k, next.Map[k]) for an entry of the incoming map
DoGetValidCmd ==
    /\ op = "none"
    /\ \E k \in DOMAIN next.Map :
          /\ argKey' = k
          /\ retCmd' = getValidCmd(k, next.Map[k]).cmd
          /\ err' = getValidCmd(k, next.Map[k]).err
    /\ op' = "getValidCmd"
    /\ UNCHANGED <<base, next, recv, rv, objVars, cfgVars, procVars>>

\* resolved, _ := next.ResolveCommands(); merged, err := base.Merge(resolved):
\* the incoming tree is one that went through ResolveCommands, so its keys
\* are final keys and its nodes carry the secret flags of their keys.
DoMergeResolved ==
    /\ op = "none"
    /\ \E r \in ResolveCommands(next) :
          /\ r.err = NoErr
          /\ next' = r.obj
          /\ \E out \in Merge(base, r.obj) :
                /\ rv' = out.obj
                /\ err' = out.err
                /\ recv' = out.recv
    /\ op' = "MergeResolved"
    /\ UNCHANGED <<base, argKey, retCmd, objVars, cfgVars, procVars>>

Next == DoMerge \/ DoResolveCommands \/ DoGetValidCmd \/ DoMergeResolved

Spec == Init /\ [][Next]_vars

----------------------------------------------------------------------------
(* The operations on one tree: Kind, Fetch, ToRaw, ObjectFromRaw,          *)
(* ToRedacted and AlterKeyCase applied to a drawn tree.                    *)
InitObject ==
    /\ base \in ObjectTrees
    /\ next = ZeroObject
    /\ recv = base
    /\ rv = ZeroObject
    /\ err = NoErr
    /\ argKey = FinalKey("")
    /\ retCmd = ZeroCommand
    /\ op = "none"
    /\ NoObjCall
    /\ NoCfgCall

\* kind := base.Kind()
DoKind ==
    /\ op = "none"
    /\ retKind' = Kind(base)
    /\ op' = "Kind"
    /\ UNCHANGED <<base, next, recv, rv, err, argKey, retCmd, path, retRaw, cfgVars, procVars>>

\* got, err := base.Fetch(asks, ".")
DoFetch ==
    /\ op = "none"
    /\ \E asks \in Paths :
          /\ path' = asks
          /\ rv' = Fetch(base, asks).obj
          /\ err' = Fetch(base, asks).err
    /\ op' = "Fetch"
    /\ UNCHANGED <<base, next, recv, argKey, retCmd, retKind, retRaw, cfgVars, procVars>>

\* raw := base.ToRaw()
DoToRaw ==
    /\ op = "none"
    /\ retRaw' = ToRaw(base)
    /\ op' = "ToRaw"
    /\ UNCHANGED <<base, next, recv, rv, err, argKey, retCmd, path, retKind, cfgVars, procVars>>

\* again := ObjectFromRaw(raw)
DoObjectFromRaw ==
    /\ op = "ToRaw"
    /\ rv' = ObjectFromRaw(retRaw)
    /\ op' = "ObjectFromRaw"
    /\ UNCHANGED <<base, next, recv, err, argKey, retCmd, objVars, cfgVars, procVars>>

\* redacted := base.ToRedacted()
DoToRedacted ==
    /\ op = "none"
    /\ rv' = ToRedacted(base)
    /\ op' = "ToRedacted"
    /\ UNCHANGED <<base, next, recv, err, argKey, retCmd, objVars, cfgVars, procVars>>

\* altered := base.AlterKeyCase(fn)
DoAlterKeyCase ==
    /\ op = "none"
    /\ \E fn \in {"strings.ToLower", "unchanged"} :
          \E r \in AlterKeyCase(base, fn) : rv' = r
    /\ op' = "AlterKeyCase"
    /\ UNCHANGED <<base, next, recv, err, argKey, retCmd, objVars, cfgVars, procVars>>

NextObject ==
    \/ DoKind
    \/ DoFetch
    \/ DoToRaw
    \/ DoObjectFromRaw
    \/ DoToRedacted
    \/ DoAlterKeyCase

SpecObject == InitObject /\ [][NextObject]_vars

----------------------------------------------------------------------------
(* The Config: options are added with With, and Compile, ShowOrder,        *)
(* Unmarshal and Marshal are called, one call after the other.             *)

\* The trees of the records: one key over a leaf, two keys, and a key
\* that carries fail.
RecordTree(m) == MapOf(OriginNext, m, FALSE)

RecordLeaf(v) == Leaf(OriginNext, v, FALSE)

ValueRecords ==
    {record("2.json", RecordTree(Map1(FinalKey("a"), RecordLeaf("n1"))), FALSE),
     record("1.json", RecordTree(Map1(FinalKey("a"), RecordLeaf("n2"))), FALSE),
     record("10.json",
            RecordTree(Map2(FinalKey("a"), RecordLeaf("n3"),
                            FinalKey("b"), RecordLeaf("n3"))), FALSE),
     record("3.json", RecordTree(Map1(Key("a", cmdFail, ""), RecordLeaf("n1"))), FALSE),
     record("1.json", ZeroObject, TRUE)}

DefaultRecords ==
    {record("9.json",
            RecordTree(Map2(FinalKey("a"), RecordLeaf("n4"),
                            FinalKey("b"), RecordLeaf("n1"))), FALSE)}

filegroup(records, bad) == [records |-> records, bad |-> bad]

FileGroups ==
    {filegroup(<<record("2.json", RecordTree(Map1(FinalKey("a"), RecordLeaf("n4"))), FALSE),
                 record("1.json", RecordTree(Map1(FinalKey("b"), RecordLeaf("n4"))), FALSE)>>,
               FALSE),
     filegroup(<<>>, TRUE)}

expansion(from, into) == [from |-> from, to |-> into]

Expansions ==
    {expansion("n1", "n2"), expansion("n2", "n3"), expansion("n3", "n3")}

\* The options With is called with.
Options ==
    {Option("values", r) : r \in ValueRecords}
    \cup {Option("defaults", r) : r \in DefaultRecords}
    \cup {Option("filegroups", g) : g \in FileGroups}
    \cup {Option("expansions", e) : e \in Expansions}
    \cup {Option("autoCompile", TRUE), Option("sorter", "lexical"),
          Option("error", "")}

\* With is called with one option, and a Config records up to MaxOptions.
MaxOptions == 3

OptionLists == {<<o>> : o \in Options}

\* The paths Unmarshal is asked for.
UnmarshalKeys == {<<>>, <<FinalKey("a")>>, <<FinalKey("c")>>}

treeVars == <<base, next, recv, rv, err, argKey, retCmd, op, objVars>>

\* conf, err := New()
InitConfig ==
    /\ base = ZeroObject
    /\ next = ZeroObject
    /\ recv = ZeroObject
    /\ rv = ZeroObject
    /\ err = NoErr
    /\ argKey = FinalKey("")
    /\ retCmd = ZeroCommand
    /\ op = "none"
    /\ NoObjCall
    /\ disk = DiskFiles
    /\ conf \in {r.c : r \in With(NewConfig, <<>>)}
    /\ pre = NewConfig
    /\ callArg = <<>>
    /\ ret = Returned("New", NoErr, <<>>)
    /\ pass = NoPass
    /\ everCompiled = FALSE
    /\ mutex = Unlocked
    /\ procs = [p \in Procs |-> Idle]
    /\ stable = conf

\* err := conf.With(opts...)
DoWith ==
    /\ \E opts \in OptionLists :
          /\ Len(conf.rawOpts) + Len(opts) <= MaxOptions
          /\ \E r \in With(conf, opts) :
                /\ conf' = r.c
                /\ ret' = Returned("With", r.err, <<>>)
                /\ pass' = r.pass
                /\ everCompiled' = (everCompiled \/ succeeded(r.pass))
          /\ callArg' = opts
    /\ pre' = conf
    /\ UNCHANGED <<treeVars, procVars, disk>>

\* err := conf.Compile()
DoCompile ==
    /\ \E p \in compile(conf) :
          /\ conf' = stored(conf, p)
          /\ ret' = Returned("Compile", p.err, <<>>)
          /\ pass' = p
          /\ everCompiled' = (everCompiled \/ succeeded(p))
    /\ pre' = conf
    /\ callArg' = <<>>
    /\ UNCHANGED <<treeVars, procVars, disk>>

\* files, err := conf.ShowOrder()
DoShowOrder ==
    /\ ret' = Returned("ShowOrder", ShowOrder(conf).err, ShowOrder(conf).val)
    /\ pre' = conf
    /\ callArg' = <<>>
    /\ pass' = NoPass
    /\ UNCHANGED <<conf, everCompiled, treeVars, procVars, disk>>

\* err := conf.Unmarshal(key, &result)
DoUnmarshal ==
    /\ \E asks \in UnmarshalKeys :
          /\ ret' = Returned("Unmarshal", Unmarshal(conf, asks).err, Unmarshal(conf, asks).obj)
          /\ callArg' = asks
    /\ pre' = conf
    /\ pass' = NoPass
    /\ UNCHANGED <<conf, everCompiled, treeVars, procVars, disk>>

\* bytes, err := conf.Marshal(RedactSecrets(redact))
DoMarshal ==
    /\ \E redact \in BOOLEAN :
          /\ ret' = Returned("Marshal", Marshal(conf, redact).err, Marshal(conf, redact).obj)
          /\ callArg' = <<redact>>
    /\ pre' = conf
    /\ pass' = NoPass
    /\ UNCHANGED <<conf, everCompiled, treeVars, procVars, disk>>

\* The files of the directory a configured file group reads are deleted,
\* between two calls on the Config.
RemoveFiles ==
    /\ disk # {}
    /\ Len(conf.opts.filegroups) > 0
    /\ disk' = {}
    /\ pre' = conf
    /\ callArg' = <<>>
    /\ ret' = Returned("none", NoErr, <<>>)
    /\ pass' = NoPass
    /\ UNCHANGED <<conf, everCompiled, treeVars, procVars>>

NextConfig == DoWith \/ DoCompile \/ DoShowOrder \/ DoUnmarshal \/ DoMarshal

SpecConfig == InitConfig /\ [][NextConfig]_vars

\* The same calls on a Config whose files may be deleted between them.
NextDisk ==
    DoWith \/ DoCompile \/ DoShowOrder \/ DoUnmarshal \/ DoMarshal \/ RemoveFiles

SpecDisk == InitConfig /\ [][NextDisk]_vars

----------------------------------------------------------------------------
(* Goroutines calling one Config.  A call locks the mutex on entry and the *)
(* deferred Unlock runs on return; between the two, each read and each     *)
(* assignment of a field of the Config is a step of its own, so that the   *)
(* steps of two calls interleave wherever the mutex lets them.             *)

\* The options With is called with here.
GoOptions ==
    {Option("values", record("2.json", RecordTree(Map1(FinalKey("a"), RecordLeaf("n1"))), FALSE)),
     Option("values", record("3.json", RecordTree(Map1(Key("a", cmdFail, ""), RecordLeaf("n1"))), FALSE)),
     Option("autoCompile", TRUE),
     Option("error", "")}

\* A Config records up to MaxGoOptions options here.
MaxGoOptions == 2

Writers == {"With", "Compile"}
Readers == {"ShowOrder", "OrderList", "Extensions", "Explain", "Unmarshal"}

\* A mutex that can always be locked.
canLockAlways(m) == TRUE

\* c.mutex.Lock() returns when nobody holds the mutex.
canLock(m) == m = Unlocked

InitGo ==
    /\ base = ZeroObject
    /\ next = ZeroObject
    /\ recv = ZeroObject
    /\ rv = ZeroObject
    /\ err = NoErr
    /\ argKey = FinalKey("")
    /\ retCmd = ZeroCommand
    /\ op = "none"
    /\ NoObjCall
    /\ disk = DiskFiles
    /\ conf \in {r.c : r \in With(NewConfig, <<>>)}
    /\ pre = NewConfig
    /\ callArg = <<>>
    /\ ret = Returned("New", NoErr, <<>>)
    /\ pass = NoPass
    /\ everCompiled = FALSE
    /\ mutex = Unlocked
    /\ procs = [p \in Procs |-> Idle]
    /\ stable = conf

goFrame == <<treeVars, pre, callArg, ret, pass, everCompiled, disk>>

\* A goroutine calls With(opt).
CallWith(p) ==
    /\ procs[p].pc = "idle"
    /\ \E o \in GoOptions :
          /\ Len(conf.rawOpts) < MaxGoOptions
          /\ procs' = [procs EXCEPT ![p] = [Idle EXCEPT !.pc = "lock",
                                                       !.method = "With",
                                                       !.opts = <<o>>]]
    /\ UNCHANGED <<conf, mutex, stable, goFrame>>

\* A goroutine calls Compile, ShowOrder, OrderList, Extensions, Explain or
\* Unmarshal.
Call(p) ==
    /\ procs[p].pc = "idle"
    /\ \E m \in {"Compile"} \cup Readers :
          procs' = [procs EXCEPT ![p] = [Idle EXCEPT !.pc = "lock", !.method = m]]
    /\ UNCHANGED <<conf, mutex, stable, goFrame>>

\* c.mutex.Lock()
Lock(p) ==
    /\ procs[p].pc = "lock"
    /\ canLock(mutex)
    /\ mutex' = p
    /\ procs' = [procs EXCEPT ![p].pc =
                    IF procs[p].method = "With" THEN "apply"
                    ELSE IF procs[p].method = "Compile" THEN "compile"
                    ELSE "read"]
    /\ UNCHANGED <<conf, stable, goFrame>>

\* With: the options are applied to a fresh cfg; an error returns.
ApplyOptions(p) ==
    /\ procs[p].pc = "apply"
    /\ LET r == applyAll(alwaysOptions \o DefaultOptions \o conf.rawOpts
                            \o procs[p].opts, ZeroOptions)
       IN  procs' = [procs EXCEPT
                       ![p].pc  = IF r.err # NoErr THEN "return" ELSE "storeOpts",
                       ![p].err = r.err,
                       ![p].cfg = r.cfg]
    /\ UNCHANGED <<conf, mutex, stable, goFrame>>

\* With: c.opts = cfg
StoreOpts(p) ==
    /\ procs[p].pc = "storeOpts"
    /\ conf' = [conf EXCEPT !.opts = procs[p].cfg]
    /\ procs' = [procs EXCEPT ![p].pc = "storeRaw"]
    /\ UNCHANGED <<mutex, stable, goFrame>>

\* With: c.rawOpts = raw, and on to compile when autoCompile is set
StoreRawOpts(p) ==
    /\ procs[p].pc = "storeRaw"
    /\ conf' = [conf EXCEPT !.rawOpts = @ \o procs[p].opts]
    /\ procs' = [procs EXCEPT ![p].pc =
                    IF conf.opts.autoCompile THEN "compile" ELSE "return"]
    /\ UNCHANGED <<mutex, stable, goFrame>>

\* compile, up to its assignments: an error returns.
RunCompile(p) ==
    /\ procs[p].pc = "compile"
    /\ \E r \in compile(conf) :
          procs' = [procs EXCEPT
                      ![p].pc   = IF r.err # NoErr THEN "return"
                                  ELSE IF Len(r.order) = 0 THEN "storeTree"
                                  ELSE "storeFiles",
                      ![p].err  = r.err,
                      ![p].pass = r]
    /\ UNCHANGED <<conf, mutex, stable, goFrame>>

\* compile: c.files = files
StoreFiles(p) ==
    /\ procs[p].pc = "storeFiles"
    /\ conf' = [conf EXCEPT !.files = procs[p].pass.files]
    /\ procs' = [procs EXCEPT ![p].pc = "storeTree"]
    /\ UNCHANGED <<mutex, stable, goFrame>>

\* compile: c.tree = merged
StoreTree(p) ==
    /\ procs[p].pc = "storeTree"
    /\ conf' = [conf EXCEPT !.tree = procs[p].pass.tree]
    /\ procs' = [procs EXCEPT ![p].pc = "storeCompiled"]
    /\ UNCHANGED <<mutex, stable, goFrame>>

\* compile: c.compiled = true
StoreCompiled(p) ==
    /\ procs[p].pc = "storeCompiled"
    /\ conf' = [conf EXCEPT !.compiled = TRUE]
    /\ procs' = [procs EXCEPT ![p].pc = "return"]
    /\ UNCHANGED <<mutex, stable, goFrame>>

\* ShowOrder, OrderList, Extensions, Explain, Unmarshal: the body reads the
\* Config.
Read(p) ==
    /\ procs[p].pc = "read"
    /\ procs' = [procs EXCEPT
                   ![p].pc  = "return",
                   ![p].obs = conf,
                   ![p].err = IF procs[p].method \in {"ShowOrder", "Unmarshal"}
                              THEN notCompiledGuard(conf) ELSE NoErr]
    /\ UNCHANGED <<conf, mutex, stable, goFrame>>

\* return: the deferred c.mutex.Unlock() runs.
Return(p) ==
    /\ procs[p].pc = "return"
    /\ mutex' = Unlocked
    /\ stable' = IF procs[p].method \in Writers THEN conf ELSE stable
    /\ procs' = [procs EXCEPT ![p] = Idle]
    /\ UNCHANGED <<conf, goFrame>>

NextGo ==
    \E p \in Procs :
        \/ CallWith(p)
        \/ Call(p)
        \/ Lock(p)
        \/ ApplyOptions(p)
        \/ StoreOpts(p)
        \/ StoreRawOpts(p)
        \/ RunCompile(p)
        \/ StoreFiles(p)
        \/ StoreTree(p)
        \/ StoreCompiled(p)
        \/ Read(p)
        \/ Return(p)

SpecGo == InitGo /\ [][NextGo]_vars

----------------------------------------------------------------------------
(* Vocabulary of the properties.                                           *)

\* A tree that holds nothing: no Array, no Map and a nil Value.
IsEmptyTree(t) == Len(t.Array) = 0 /\ DOMAIN t.Map = {} /\ t.Value = NilValue

\* A tree without the nil-ness of its empty slices and maps.
RECURSIVE Plain(_)
Plain(t) ==
    [Origins |-> t.Origins,
     Array   |-> [i \in DOMAIN t.Array |-> Plain(t.Array[i])],
     Map     |-> [k \in DOMAIN t.Map |-> Plain(t.Map[k])],
     Value   |-> t.Value,
     secret  |-> t.secret]

\* The directives the specification allows on a key whose value has a kind.
LegalDirectives(kind) ==
    IF kind = Map THEN {"", "fail", "keep", "replace", "splice"}
    ELSE IF kind = Array THEN {"", "fail", "keep", "replace", "append", "prepend"}
    ELSE {"", "fail", "keep", "replace"}

\* Every key of the tree carries tokens that are legal for its value.
RECURSIVE AllValid(_)
AllValid(t) ==
    IF Len(t.Array) > 0
    THEN \A i \in DOMAIN t.Array : AllValid(t.Array[i])
    ELSE \A k \in DOMAIN t.Map :
            /\ k[2] \in LegalDirectives(Kind(t.Map[k]))
            /\ k[3] \in {"", "secret"}
            /\ AllValid(t.Map[k])

\* A direct key of the incoming map carries clear.
HasClearKey == \E k \in DOMAIN next.Map : k[2] = "clear"

\* Key k of the incoming map is the only one that resolves to its final key,
\* and no clear key empties the tree before k is looked at.
Alone(k) ==
    /\ ~HasClearKey
    /\ \A k2 \in DOMAIN next.Map : k2[1] = k[1] => k2 = k

\* Key k of the incoming map names a key the receiver map holds.
NamesExisting(k) ==
    /\ k \in DOMAIN next.Map
    /\ Kind(base) = Map
    /\ FinalKey(k[1]) \in DOMAIN base.Map

Existing(k) == base.Map[FinalKey(k[1])]

\* The incoming value under k as ResolveCommands leaves it when k names it.
ResolvedUnder(k) ==
    {r.obj : r \in {x \in resolveCommands(next.Map[k], k[3] = "secret") :
                        x.err = NoErr}}

----------------------------------------------------------------------------
(* C1: merge identity.                                                     *)

\* C1 as stated: Merge(t, emptyTree) succeeds and returns a tree equal to t,
\* for every t of kind Value, Array or Map, secret or not.
C1_MergeIdentity ==
    (op = "Merge" /\ IsEmptyTree(next)) =>
        (err = NoErr /\ Plain(rv) = Plain(base))

\* C1 amended: Merge(t, emptyTree) succeeds; it returns a tree equal to t when
\* t is an Array (secret or not) or a Map that is not secret; for a secret Map
\* it returns t with the secret flag cleared, and for a t of kind Value it
\* returns the incoming empty tree, not secret, in place of t.
C1_MergeIdentityAmended ==
    (op = "Merge" /\ IsEmptyTree(next)) =>
        /\ err = NoErr
        /\ Kind(base) = Array => Plain(rv) = Plain(base)
        /\ Kind(base) = Map => Plain(rv) = Plain([base EXCEPT !.secret = FALSE])
        /\ Kind(base) = Value => Plain(rv) = Plain([next EXCEPT !.secret = FALSE])

C1_Witness ==
    /\ op = "Merge" /\ IsEmptyTree(next) /\ err = NoErr
    /\ Kind(base) = Array /\ base.secret /\ Len(base.Array) = 2
    /\ rv = base

----------------------------------------------------------------------------
(* C2: clear absolutism.                                                   *)

\* C2: whenever a direct key of incoming's Map carries clear, Merge returns
\* an empty tree and no error, whatever the base and the other keys are.
C2_ClearAbsolutism ==
    (op = "Merge" /\ HasClearKey) => (err = NoErr /\ IsEmptyTree(rv))

----------------------------------------------------------------------------
(* C3: kind mismatch, a base Map against an incoming Array.                *)

MapAgainstArray(k) ==
    /\ op = "Merge"
    /\ NamesExisting(k)
    /\ Alone(k)
    /\ Kind(Existing(k)) = Map
    /\ Kind(next.Map[k]) = Array

\* C3 as stated: with no directive on the key, a base Map against an incoming
\* Array for the same final key makes the merge fail with InvalidCommand.
C3_MismatchFails ==
    \A k \in DOMAIN next.Map :
        (MapAgainstArray(k) /\ k[2] = "") => err = ErrInvalidCommand

\* C3 amended: with no directive the key behaves as with replace: the merge
\* does not fail on its account (an incoming tree whose directives are all
\* legal never gives InvalidCommand) and a successful merge holds the
\* incoming Array, its commands resolved, under the final key; keep retains
\* the base Map; fail gives Conflict.
C3_MismatchTakesIncoming ==
    \A k \in DOMAIN next.Map :
        MapAgainstArray(k) =>
            /\ (k[2] \in {"", "replace"} /\ AllValid(next)) =>
                   err # ErrInvalidCommand
            /\ (k[2] \in {"", "replace"} /\ DOMAIN next.Map = {k} /\ AllValid(next)) =>
                   err = NoErr
            /\ (k[2] \in {"", "replace"} /\ err = NoErr) =>
                   rv.Map[FinalKey(k[1])] \in ResolvedUnder(k)
            /\ (k[2] = "keep" /\ err = NoErr) =>
                   rv.Map[FinalKey(k[1])] = Existing(k)
            /\ (k[2] = "fail" /\ AllValid(next)) => err = ErrConflict

C3_Witness ==
    \E k \in DOMAIN next.Map :
        /\ MapAgainstArray(k) /\ k[2] = "" /\ err = NoErr
        /\ Kind(rv.Map[FinalKey(k[1])]) = Array

----------------------------------------------------------------------------
(* C4: the other directives in a kind mismatch.                            *)

\* C4: when the existing value and the incoming value for the same final key
\* differ in kind, append, prepend and splice are rejected with an error.
C4_MismatchRejectsOthers ==
    \A k \in DOMAIN next.Map :
        ( /\ op = "Merge"
          /\ NamesExisting(k)
          /\ Alone(k)
          /\ Kind(Existing(k)) # Kind(next.Map[k])
          /\ k[2] \in {"append", "prepend", "splice"} )
        => err # NoErr

----------------------------------------------------------------------------
(* C5: fail propagation.                                                   *)

\* C5: when an incoming key with the fail directive names a key that exists
\* in base (whatever the two kinds are), Merge returns Conflict and the zero
\* Object; and every error return of Merge and of ResolveCommands comes with
\* the zero Object.  The first part is stated for an incoming tree whose
\* directives are all legal: an illegal one may be reported instead, and a
\* top-level clear empties the tree before any key is merged.
C5_FailPropagation ==
    /\ (op \in {"Merge", "ResolveCommands"} /\ err # NoErr) => rv = ZeroObject
    /\ \A k \in DOMAIN next.Map :
          (op = "Merge" /\ NamesExisting(k) /\ k[2] = "fail" /\ AllValid(next))
          => (err = ErrConflict /\ rv = ZeroObject)

C5_Witness ==
    \E k \in DOMAIN next.Map :
        /\ op = "Merge" /\ NamesExisting(k) /\ k[2] = "fail" /\ AllValid(next)
        /\ Kind(Existing(k)) = Value /\ Kind(next.Map[k]) = Value
        /\ next.Map[k].Value = "n1"
        /\ err = ErrConflict /\ rv = ZeroObject

----------------------------------------------------------------------------
(* C6: append order.                                                       *)

\* The element sequences ResolveCommands can leave for an incoming Array.
ResolvedElems(t) ==
    {r.obj.Array : r \in {x \in ResolveCommands(t) : x.err = NoErr}}

\* C6: merging a non-empty incoming Array onto a non-empty base Array gives,
\* under the default or the append directive, the elements of base followed
\* by those of incoming, and under prepend those of incoming followed by those
\* of base; the Origins are concatenated in the same order.  Stated for the
\* roots of Merge and for a key that names a base Array (the only incoming
\* key for that final key, no top-level clear).
C6_AppendOrder ==
    /\ (op = "Merge" /\ Kind(base) = Array /\ Kind(next) = Array /\ AllValid(next))
       => /\ err = NoErr
          /\ rv.Array \in {base.Array \o e : e \in ResolvedElems(next)}
          /\ rv.Origins = base.Origins \o next.Origins
    /\ \A k \in DOMAIN next.Map :
          ( /\ op = "Merge" /\ NamesExisting(k) /\ Alone(k) /\ err = NoErr
            /\ Kind(Existing(k)) = Array /\ Kind(next.Map[k]) = Array )
          => LET got == rv.Map[FinalKey(k[1])]
                 old == Existing(k)
                 new == next.Map[k]
             IN  /\ k[2] \in {"", "append"} =>
                       /\ got.Array \in {old.Array \o e : e \in ResolvedElems(new)}
                       /\ got.Origins = old.Origins \o new.Origins
                 /\ k[2] = "prepend" =>
                       /\ got.Array \in {e \o old.Array : e \in ResolvedElems(new)}
                       /\ got.Origins = new.Origins \o old.Origins

C6_Witness ==
    \E k \in DOMAIN next.Map :
        /\ op = "Merge" /\ NamesExisting(k) /\ Alone(k) /\ err = NoErr
        /\ k[2] = "prepend"
        /\ Kind(Existing(k)) = Array
        /\ Len(next.Map[k].Array) = 2
        /\ rv.Map[FinalKey(k[1])].Array = next.Map[k].Array \o Existing(k).Array
        /\ rv.Map[FinalKey(k[1])].Origins = <<OriginNext, OriginBase>>

----------------------------------------------------------------------------
(* C7: replace.                                                            *)

\* C7: when an incoming key with the replace directive names an existing
\* base key, the result under the final key is exactly the incoming subtree
\* with its directive keys resolved, and nothing of the base subtree survives.
C7_Replace ==
    \A k \in DOMAIN next.Map :
        ( /\ op = "Merge" /\ NamesExisting(k) /\ Alone(k) /\ err = NoErr
          /\ k[2] = "replace" )
        => /\ FinalKey(k[1]) \in DOMAIN rv.Map
           /\ Plain(rv.Map[FinalKey(k[1])]) \in {Plain(t) : t \in ResolvedUnder(k)}

----------------------------------------------------------------------------
(* C8: keep.                                                               *)

\* A node without its own secret flag: its content and kind.
Content(t) == [Plain(t) EXCEPT !.secret = FALSE]

\* C8: when an incoming key with the keep directive names a key that exists
\* in base, a successful merge holds the base's value (content and kind)
\* under that key, for every kind of base value and of incoming value.
\* Stated for a key that is the only incoming key for its final key, with no
\* top-level clear.
C8_Keep ==
    \A k \in DOMAIN next.Map :
        ( /\ op = "Merge" /\ NamesExisting(k) /\ Alone(k) /\ err = NoErr
          /\ k[2] = "keep" )
        => /\ FinalKey(k[1]) \in DOMAIN rv.Map
           /\ Content(rv.Map[FinalKey(k[1])]) = Content(Existing(k))

C8_Witness ==
    \E k \in DOMAIN next.Map :
        /\ op = "Merge" /\ NamesExisting(k) /\ Alone(k) /\ err = NoErr
        /\ k[2] = "keep"
        /\ Kind(Existing(k)) = Map /\ Kind(next.Map[k]) = Array
        /\ rv.Map[FinalKey(k[1])] = Existing(k)

----------------------------------------------------------------------------
(* C9: directive validity.                                                 *)

\* The incoming map has the single key k, with no directive, over a Map that
\* holds a clear key.
ClearBelow(k) ==
    /\ DOMAIN next.Map = {k}
    /\ k[2] = "" /\ k[3] \in {"", "secret"}
    /\ Kind(next.Map[k]) = Map
    /\ \E c \in DOMAIN next.Map[k].Map : c[2] = "clear"

\* C9: getValidCmd returns the parsed command iff the directive is legal for
\* the kind of the node, and InvalidCommand otherwise; so a clear key below
\* the top level of an incoming tree makes ResolveCommands and Merge fail
\* with InvalidCommand.
C9_DirectiveValidity ==
    /\ op = "getValidCmd" =>
          LET legal == /\ argKey[2] \in LegalDirectives(Kind(next.Map[argKey]))
                       /\ argKey[3] \in {"", "secret"}
          IN  /\ legal => /\ err = NoErr
                          /\ retCmd = [cmd |-> argKey[2],
                                       final |-> FinalKey(argKey[1]),
                                       secret |-> (argKey[3] = "secret")]
              /\ ~legal => err = ErrInvalidCommand
    /\ \A k \in DOMAIN next.Map :
          (op \in {"Merge", "ResolveCommands"} /\ ClearBelow(k))
          => err = ErrInvalidCommand

----------------------------------------------------------------------------
(* C10: ResolveCommands.                                                   *)

\* No two keys of one map of the tree resolve to the same final key.
RECURSIVE NoCollision(_)
NoCollision(t) ==
    IF Len(t.Array) > 0
    THEN \A i \in DOMAIN t.Array : NoCollision(t.Array[i])
    ELSE /\ \A k1, k2 \in DOMAIN t.Map : k1[1] = k2[1] => k1 = k2
         /\ \A k \in DOMAIN t.Map : NoCollision(t.Map[k])

\* The tree the claim describes: the same shape, every key replaced by its
\* final key, a node secret iff the key that names it carries the secret
\* token (s), array elements and the root not secret, values unchanged.
RECURSIVE Resolved(_, _)
Resolved(t, s) ==
    [Origins |-> t.Origins,
     Array   |-> [i \in DOMAIN t.Array |-> Resolved(t.Array[i], FALSE)],
     Map     |-> IF Len(t.Array) > 0 THEN [k \in DOMAIN t.Map |-> Plain(t.Map[k])]
                 ELSE [f \in {FinalKey(k[1]) : k \in DOMAIN t.Map} |->
                          LET k == CHOOSE x \in DOMAIN t.Map : x[1] = f[1]
                          IN  Resolved(t.Map[k], k[3] = "secret")],
     Value   |-> t.Value,
     secret  |-> s]

\* C10: ResolveCommands on a tree whose directives are all valid succeeds and
\* returns the tree of the same shape with every key replaced by its final
\* key, in which a node is secret iff the key that directly names it carried
\* the secret token.  Stated for trees in which no two keys of one map
\* resolve to the same final key.
C10_ResolveCommands ==
    op = "ResolveCommands" =>
        /\ AllValid(next) => err = NoErr
        /\ (err = NoErr /\ NoCollision(next)) =>
              Plain(rv) = Resolved(next, FALSE)

C10_Witness ==
    /\ op = "ResolveCommands" /\ err = NoErr /\ NoCollision(next)
    /\ Cardinality(DOMAIN next.Map) = 2
    /\ \E k \in DOMAIN next.Map :
          /\ k[3] = "secret" /\ k[2] = "replace"
          /\ Kind(next.Map[k]) = Map
          /\ rv.Map[FinalKey(k[1])].secret
          /\ \A c \in DOMAIN rv.Map[FinalKey(k[1])].Map :
                ~rv.Map[FinalKey(k[1])].Map[c].secret
          /\ \E b \in DOMAIN rv.Map : ~rv.Map[b].secret
    /\ ~rv.secret

----------------------------------------------------------------------------
(* C11: redaction.                                                         *)

\* r is what the claim says t is redacted to: a secret node is a Value leaf
\* holding "REDACTED", still secret; a node that is not secret keeps its
\* kind, keys, array length and value, and its children are redacted in turn.
RECURSIVE RedactedAs(_, _)
RedactedAs(t, r) ==
    IF t.secret
    THEN /\ Kind(r) = Value /\ r.Value = "REDACTED" /\ r.secret
         /\ Len(r.Array) = 0 /\ DOMAIN r.Map = {}
    ELSE /\ Kind(r) = Kind(t) /\ ~r.secret /\ r.Value = t.Value
         /\ Kind(t) = Array =>
               /\ Len(r.Array) = Len(t.Array)
               /\ \A i \in DOMAIN t.Array : RedactedAs(t.Array[i], r.Array[i])
         /\ Kind(t) = Map =>
               /\ DOMAIN r.Map = DOMAIN t.Map
               /\ \A k \in DOMAIN t.Map : RedactedAs(t.Map[k], r.Map[k])

\* Every value held in a tree, in whatever field.
RECURSIVE ValuesOf(_)
ValuesOf(t) ==
    {t.Value}
    \cup UNION {ValuesOf(t.Array[i]) : i \in DOMAIN t.Array}
    \cup UNION {ValuesOf(t.Map[k]) : k \in DOMAIN t.Map}

\* The values held at or below a secret node of the tree.
RECURSIVE SecretValues(_)
SecretValues(t) ==
    IF t.secret THEN ValuesOf(t) \ {NilValue}
    ELSE UNION {SecretValues(t.Array[i]) : i \in DOMAIN t.Array}
         \cup UNION {SecretValues(t.Map[k]) : k \in DOMAIN t.Map}

\* C11: ToRedacted returns a tree in which every secret node, whatever its
\* kind and content, is a single Value leaf holding "REDACTED" with secret
\* still true, every node that is not secret and has no secret ancestor keeps
\* its kind, keys, array length and value, and no value from inside a secret
\* subtree appears anywhere.
C11_Redaction ==
    op = "ToRedacted" =>
        /\ RedactedAs(base, rv)
        /\ ValuesOf(rv) \cap SecretValues(base) = {}

C11_Witness ==
    /\ op = "ToRedacted"
    /\ ~base.secret /\ Kind(base) = Map
    /\ FinalKey("a") \in DOMAIN base.Map
    /\ Kind(base.Map[FinalKey("a")]) = Array
    /\ Kind(base.Map[FinalKey("a")].Array[1]) = Map
    /\ base.Map[FinalKey("a")].Array[1].secret
    /\ rv.Map[FinalKey("a")].Array[1].Value = "REDACTED"
    /\ rv.Map[FinalKey("a")].Array[1].secret
    /\ rv.Map[FinalKey("a")].Array[2].Value = "p1"
    /\ rv.Map[FinalKey("0")].Value = "p3"

----------------------------------------------------------------------------
(* C12: purity of the transforms.                                          *)

\* C12: Merge, ResolveCommands, ToRedacted and AlterKeyCase never modify
\* their receiver or argument: after the call returns, with success or with
\* an error, the receiver seen through any other reference to it has exactly
\* the keys and values it had before the call.
C12_Purity ==
    op \in {"Merge", "ResolveCommands", "ToRedacted", "AlterKeyCase"} =>
        recv = base

----------------------------------------------------------------------------
(* C15: the outcome of Fetch.                                              *)

\* The segments that are integers an int can hold, and the integer each is.
\* "1x" is no integer, and neither is 2^63, which no int holds.
IsIndex(seg) == seg \in {FinalKey("0"), FinalKey("1"), FinalKey("-1"), FinalKey("+0")}

IndexOf(seg) ==
    CASE seg = FinalKey("1")  -> 1
      [] seg = FinalKey("-1") -> -1
      [] OTHER                -> 0

\* A segment resolves on a node: it is a key the Map holds, or an index
\* within the Array.
ResolvesOn(node, seg) ==
    \/ Kind(node) = Map /\ seg \in DOMAIN node.Map
    \/ Kind(node) = Array /\ IsIndex(seg)
       /\ 0 <= IndexOf(seg) /\ IndexOf(seg) < Len(node.Array)

StepTo(node, seg) ==
    IF Kind(node) = Map THEN node.Map[seg] ELSE node.Array[IndexOf(seg) + 1]

\* The node reached by consuming the segments that resolve, and the
\* segments left from the first that does not.
RECURSIVE Reached(_, _)
Reached(node, asks) ==
    IF Len(asks) > 0 /\ ResolvesOn(node, asks[1])
    THEN Reached(StepTo(node, asks[1]), Tail(asks))
    ELSE [node |-> node, rest |-> asks]

\* C15: an empty path returns the node itself; otherwise the path is
\* consumed segment by segment: a segment applied to a Map that lacks the
\* key, or to a Value node, fails with NotFound; an integer segment outside
\* [0, len) applied to an Array fails with ArrayOutOfBounds; a segment that
\* is no integer (an int cannot hold it, or it is no numeral) applied to an
\* Array fails with a parse error; when every segment resolves the node
\* reached is returned with no error; every failure returns the zero Object.
C15_Fetch ==
    op = "Fetch" =>
        LET r == Reached(base, path) IN
        /\ path = <<>> => (rv = base /\ err = NoErr)
        /\ r.rest = <<>> => (rv = r.node /\ err = NoErr)
        /\ r.rest # <<>> =>
              /\ rv = ZeroObject
              /\ Kind(r.node) \in {Map, Value} => err = ErrNotFound
              /\ (Kind(r.node) = Array /\ IsIndex(r.rest[1])) =>
                    err = ErrArrayOutOfBounds
              /\ (Kind(r.node) = Array /\ ~IsIndex(r.rest[1])) =>
                    err \in {ErrSyntax, ErrRange}

C15_Witness ==
    /\ op = "Fetch"
    /\ path = <<FinalKey("a"), FinalKey("+0"), FinalKey("c")>>
    /\ Kind(base) = Map
    /\ err = NoErr
    /\ rv = base.Map[FinalKey("a")].Array[1].Map[FinalKey("c")]
    /\ rv.Value = "p2"

----------------------------------------------------------------------------
(* C16: Kind.                                                              *)

\* C16: Kind is total and follows the priority Array > Map > Value: an
\* Object with a non-empty Array is of kind Array even if its Map or Value
\* are set too, one with an empty Array and a non-empty Map is of kind Map,
\* and every other Object, including one with nothing set or with an empty
\* but allocated Array or Map, is of kind Value.
C16_Kind ==
    op = "Kind" =>
        /\ retKind \in {Array, Map, Value}
        /\ Len(base.Array) > 0 => retKind = Array
        /\ (Len(base.Array) = 0 /\ DOMAIN base.Map # {}) => retKind = Map
        /\ (Len(base.Array) = 0 /\ DOMAIN base.Map = {}) => retKind = Value

C16_Witness ==
    /\ op = "Kind"
    /\ Len(base.Array) > 0 /\ DOMAIN base.Map # {} /\ base.Value # NilValue
    /\ retKind = Array

\* The other cases of C16 happen too: a Map with a Value set, and an Object
\* whose Array and Map are allocated and empty.
C16_WitnessEmpty ==
    /\ op = "Kind"
    /\ base.Array = <<>> /\ base.Map = EmptyMap
    /\ {"Array", "Map"} \subseteq base.alloc
    /\ retKind = Value

----------------------------------------------------------------------------
(* C17: round trip through the native tree.                                *)

\* r has the kind of t and, by that kind, its array length and elements,
\* its keys and entries, or its leaf value, at every position.
RECURSIVE SameShape(_, _)
SameShape(t, r) ==
    /\ Kind(r) = Kind(t)
    /\ Kind(t) = Array =>
          /\ Len(r.Array) = Len(t.Array)
          /\ \A i \in DOMAIN t.Array : SameShape(t.Array[i], r.Array[i])
    /\ Kind(t) = Map =>
          /\ DOMAIN r.Map = DOMAIN t.Map
          /\ \A k \in DOMAIN t.Map : SameShape(t.Map[k], r.Map[k])
    /\ Kind(t) = Value =>
          /\ r.Value = t.Value
          /\ Len(r.Array) = 0 /\ DOMAIN r.Map = {}

\* Every node of the tree has an Origins slice that is empty and not nil.
RECURSIVE EmptyOrigins(_)
EmptyOrigins(t) ==
    /\ t.Origins = <<>> /\ "Origins" \in t.alloc
    /\ \A i \in DOMAIN t.Array : EmptyOrigins(t.Array[i])
    /\ \A k \in DOMAIN t.Map : EmptyOrigins(t.Map[k])

\* C17: ObjectFromRaw(t.ToRaw()) has the kind, keys, array lengths and leaf
\* values of t at every position, empty maps and sequences inside t
\* included, and every node ObjectFromRaw builds has an empty Origins that is
\* not nil.
C17_RoundTrip ==
    op = "ObjectFromRaw" =>
        /\ retRaw = ToRaw(base)
        /\ SameShape(base, rv)
        /\ EmptyOrigins(rv)

C17_Witness ==
    /\ op = "ObjectFromRaw"
    /\ Kind(base) = Array /\ Len(base.Array) = 2
    /\ base.Array[1] = EmptyArrayLeaf(OriginBase)
    /\ Kind(rv) = Array /\ Len(rv.Array) = 2
    /\ rv.Array[1].Value = NilValue /\ Kind(rv.Array[1]) = Value
    /\ rv.Array[2].Value = "p2"
    /\ rv.Origins = <<>>

----------------------------------------------------------------------------
(* C13: last-known-good on failure.                                        *)

\* C13: if a compile pass returns an error (from gathering the records, a
\* record's fetch, Merge or an expansion), the Config's compiled tree, its
\* list of merged files and its compiled flag are what they were before the
\* pass: a Config that compiled once keeps serving that tree after later
\* failed compiles.
C13_LastKnownGood ==
    (ret.method \in {"Compile", "With"} /\ ret.err # NoErr) =>
        /\ conf.tree = pre.tree
        /\ conf.files = pre.files
        /\ conf.compiled = pre.compiled

C13_Witness ==
    /\ ret.method = "Compile" /\ ret.err = ErrConflict
    /\ Len(pass.order) > 0
    /\ pre.compiled /\ Kind(pre.tree) = Map /\ Len(pre.files) > 0
    /\ conf.tree = pre.tree /\ conf.files = pre.files /\ conf.compiled

----------------------------------------------------------------------------
(* C14: reads before the first successful compile.                         *)

\* C14: ShowOrder, Unmarshal and Marshal on a Config that has never
\* completed a successful compile return ErrNotCompiled and no data; after
\* the first successful Compile, or compile inside With, they no longer
\* return ErrNotCompiled.
C14_NotCompiled ==
    ret.method \in {"ShowOrder", "Unmarshal", "Marshal"} =>
        /\ ~everCompiled =>
              /\ ret.err = ErrNotCompiled
              /\ ret.val \in {<<>>, ZeroObject}
        /\ everCompiled => ret.err # ErrNotCompiled

C14_Witness ==
    /\ ret.method = "ShowOrder"
    /\ ~everCompiled
    /\ Len(conf.opts.values) > 0
    /\ ret.err = ErrNotCompiled /\ ret.val = <<>>

\* The other half of C14 happens too: a read after a compile inside With.
C14_WitnessAfter ==
    /\ ret.method = "Unmarshal" /\ callArg = <<FinalKey("a")>>
    /\ everCompiled /\ conf.opts.autoCompile
    /\ ret.err = NoErr /\ ret.val.Value = "n1"

----------------------------------------------------------------------------
(* C18: the order of a compile pass.                                       *)

\* The records of the file groups whose files are present, in the order
\* they are gathered.
RECURSIVE Gathered(_)
Gathered(groups) ==
    IF groups = <<>> THEN <<>>
    ELSE [i \in 1..Cardinality({j \in DOMAIN Head(groups).records :
                                    Head(groups).records[j].name \in disk}) |->
             LET present == {j \in DOMAIN Head(groups).records :
                                Head(groups).records[j].name \in disk}
             IN  Head(groups).records[
                     CHOOSE j \in present :
                         Cardinality({x \in present : x <= j}) = i]]
         \o Gathered(Tail(groups))

\* Where the i-th record of a lands in a stable sort by name: behind the
\* records that sort before it and behind the earlier ones of equal rank.
LandsAt(sorter, a, i) ==
    1 + Cardinality({j \in DOMAIN a :
                        \/ NameRank(sorter, a[j].name) < NameRank(sorter, a[i].name)
                        \/ /\ NameRank(sorter, a[j].name) = NameRank(sorter, a[i].name)
                           /\ j < i})

StablySorted(sorter, a) ==
    [p \in DOMAIN a |-> a[CHOOSE i \in DOMAIN a : LandsAt(sorter, a, i) = p]]

\* The order the claim gives: the defaults as held, then the file records
\* and the value records, stably sorted by name.
ClaimedOrder(o) ==
    o.defaults \o StablySorted(o.sorter, Gathered(o.filegroups) \o o.values)

\* The trees a left fold of Merge over the records gives, from acc on.
RECURSIVE FoldMerge(_, _)
FoldMerge(acc, records) ==
    IF records = <<>> THEN {acc}
    ELSE UNION { FoldMerge(out.obj, Tail(records))
               : out \in {x \in Merge(acc, Head(records).tree) : x.err = NoErr} }

\* The last record of the order that holds key k.
LastWith(order, k) ==
    LET holders == {i \in DOMAIN order : k \in DOMAIN order[i].tree.Map}
    IN  order[CHOOSE i \in holders : \A j \in holders : j <= i]

\* Every key of every record is a plain key.
PlainKeys(order) ==
    \A i \in DOMAIN order : \A k \in DOMAIN order[i].tree.Map : k = FinalKey(k[1])

\* The last call ran a compile pass to its end.
Compiled == ret.method \in {"Compile", "With"} /\ succeeded(pass)

\* C18: a compile pass merges the records as a left fold from an empty
\* tree: first the default records in the order the options hold them, then
\* the file records with the value records, sorted by the configured sorter,
\* records of equal names in their gathered order, files before values; each
\* record is merged once, and the value of a later record overrides that of
\* an earlier one under a key with no directive.  The fold and the override
\* are stated for a pass with no expansions.
C18_CompileOrder ==
    Compiled =>
        LET order == ClaimedOrder(conf.opts) IN
        /\ pass.order = order
        /\ Len(order) > 0 => conf.files = [i \in DOMAIN order |-> order[i].name]
        /\ conf.opts.expansions = <<>> =>
              /\ conf.tree \in FoldMerge(CompileEmpty, order)
              /\ PlainKeys(order) =>
                    \A i \in DOMAIN order : \A k \in DOMAIN order[i].tree.Map :
                        /\ k \in DOMAIN conf.tree.Map
                        /\ conf.tree.Map[k].Value = LastWith(order, k).tree.Map[k].Value

C18_Witness ==
    /\ Compiled
    /\ conf.opts.expansions = <<>>
    /\ conf.files = <<"9.json", "1.json", "2.json", "2.json">>
    /\ Len(conf.opts.values) = 1
    /\ conf.tree.Map[FinalKey("a")].Value = "n1"
    /\ conf.tree.Map[FinalKey("b")].Value = "n4"

\* The sorter decides the order in C18: the lexical one puts "10.json" first.
C18_WitnessSorter ==
    /\ Compiled
    /\ conf.opts.sorter = "lexical"
    /\ conf.files = <<"10.json", "2.json">>
    /\ conf.tree.Map[FinalKey("a")].Value = "n1"

----------------------------------------------------------------------------
(* C19: the order of the expansions.                                       *)

\* The tree after every expansion pass, in declared order, each over the
\* whole tree the pass before it left; the first error ends the passes.
RECURSIVE ThroughPasses(_, _)
ThroughPasses(t, exps) ==
    IF exps = <<>> THEN [err |-> NoErr, obj |-> t]
    ELSE LET r == ToExpanded(t, Head(exps)) IN
         IF r.err # NoErr THEN [err |-> r.err, obj |-> ZeroObject]
         ELSE ThroughPasses(r.obj, Tail(exps))

\* The last call made a compile pass.
MadePass == ret.method \in {"Compile", "With"} /\ pass # NoPass

\* C19: in a successful compile the stored tree is the result of applying
\* every configured expansion, in declared order, each to the whole tree the
\* one before it left, starting from the tree all the records were merged
\* into; the expanded snapshot built before a record's fetch is what that
\* fetch is given and never replaces the tree the records are merged into;
\* and an expansion error aborts the compile with that error.
C19_ExpansionOrder ==
    MadePass =>
        LET exps == conf.opts.expansions IN
        /\ succeeded(pass) =>
              \E m \in FoldMerge(CompileEmpty, pass.order) :
                  /\ ThroughPasses(m, exps).err = NoErr
                  /\ conf.tree = ThroughPasses(m, exps).obj
        /\ \A i \in DOMAIN pass.seen :
              \E m \in FoldMerge(CompileEmpty, SubSeq(pass.order, 1, i - 1)) :
                  /\ ThroughPasses(m, exps).err = NoErr
                  /\ pass.seen[i] = ThroughPasses(m, exps).obj
        /\ ( /\ Len(pass.seen) = Len(pass.order)
             /\ \A m \in FoldMerge(CompileEmpty, pass.order) :
                   ThroughPasses(m, exps).err # NoErr )
           => (ret.err = ErrExpansion /\ conf.tree = pre.tree)

C19_Witness ==
    /\ MadePass /\ succeeded(pass)
    /\ conf.opts.expansions = <<expansion("n1", "n2"), expansion("n2", "n3")>>
    /\ Len(pass.order) = 1 /\ Len(pass.seen) = 1
    /\ FinalKey("a") \in DOMAIN pass.order[1].tree.Map
    /\ pass.order[1].tree.Map[FinalKey("a")].Value = "n1"
    /\ conf.tree.Map[FinalKey("a")].Value = "n3"

\* The error of C19 happens too: an expansion that never ends, met after the
\* records were merged.
C19_WitnessError ==
    /\ MadePass /\ ret.err = ErrExpansion
    /\ Len(pass.order) > 0 /\ Len(pass.seen) = Len(pass.order)

----------------------------------------------------------------------------
(* C20: mutual exclusion on the Config.                                    *)

\* A goroutine is between the entry of its call and its return.
InBody(p) == procs[p].pc \notin {"idle", "lock"}

\* C20: With, Compile, ShowOrder, OrderList, Extensions, Explain and
\* Unmarshal hold the Config's mutex from entry to return: under any
\* interleaving at most one of them executes its body at a time, the mutex is
\* held by exactly the goroutine that is in a body and is released on every
\* return (error returns included), and what a reader sees of tree, files,
\* compiled and opts is the Config as the last finished With or Compile left
\* it, never one from a half-finished compile or option application.
C20_MutualExclusion ==
    /\ \A p \in Procs : \A q \in Procs : (InBody(p) /\ InBody(q)) => p = q
    /\ \A p \in Procs : InBody(p) <=> mutex = p
    /\ \A p \in Procs :
          (procs[p].pc = "return" /\ procs[p].method \in Readers) =>
              procs[p].obs = stable
    /\ mutex = Unlocked => conf = stable

C20_Witness ==
    \E p \in Procs : \E q \in Procs :
        /\ procs[p].pc = "return" /\ procs[p].method = "ShowOrder"
        /\ procs[p].obs.compiled /\ Len(procs[p].obs.files) > 0
        /\ procs[q].pc = "lock" /\ procs[q].method = "With"
        /\ mutex = p

\* The error return of C20 happens too: a compile fails while another
\* goroutine waits for the mutex, and the mutex is released afterwards.
C20_WitnessError ==
    \E p \in Procs : \E q \in Procs :
        /\ procs[p].pc = "return" /\ procs[p].method \in Writers
        /\ procs[p].err = ErrConflict
        /\ procs[q].pc = "lock"
        /\ mutex = p

----------------------------------------------------------------------------
(* C21: the secret flag of merged nodes.                                   *)

\* A Merge has returned: of an incoming tree as decoded, or of one that went
\* through ResolveCommands first.
Merged == op \in {"Merge", "MergeResolved"}

\* Key k of the incoming map meets a base node of the same kind, in a merge
\* that succeeded; k is the only incoming key for its final key.
SameKindAt(k, kind) ==
    /\ Merged /\ err = NoErr
    /\ NamesExisting(k) /\ Alone(k)
    /\ Kind(Existing(k)) = kind
    /\ Kind(next.Map[k]) = kind

\* C21: when two Value nodes are merged the result's secret flag equals the
\* secret marker of the incoming key's command, whatever the base node's flag
\* is (at the root, where there is no key, it is false); when two Arrays are
\* merged with append, prepend or no directive the result is secret iff the
\* base array was secret, or the incoming array was secret, or the incoming
\* key carried the secret marker.
C21_SecretFlag ==
    /\ (Merged /\ err = NoErr /\ Kind(base) = Value /\ Kind(next) = Value)
       => ~rv.secret
    /\ (Merged /\ err = NoErr /\ Kind(base) = Array /\ Kind(next) = Array)
       => (rv.secret <=> (base.secret \/ next.secret))
    /\ \A k \in DOMAIN next.Map :
          /\ SameKindAt(k, Value) =>
                (rv.Map[FinalKey(k[1])].secret <=> (k[3] = "secret"))
          /\ (SameKindAt(k, Array) /\ k[2] \in {"", "append", "prepend"}) =>
                (rv.Map[FinalKey(k[1])].secret <=>
                    (Existing(k).secret \/ next.Map[k].secret \/ k[3] = "secret"))

\* A secret base Value kept by a keep key with no marker ends up not secret.
C21_Witness ==
    \E k \in DOMAIN next.Map :
        /\ SameKindAt(k, Value) /\ k[2] = "keep" /\ k[3] = ""
        /\ Existing(k).secret /\ Existing(k).Value = "p1"
        /\ rv.Map[FinalKey(k[1])].Value = "p1"
        /\ ~rv.Map[FinalKey(k[1])].secret

\* A secret incoming Array under a key with no marker, appended to a base
\* Array that is not secret, gives a secret Array.
C21_WitnessArray ==
    \E k \in DOMAIN next.Map :
        /\ SameKindAt(k, Array) /\ k[2] = "" /\ k[3] = ""
        /\ ~Existing(k).secret /\ next.Map[k].secret
        /\ rv.Map[FinalKey(k[1])].secret
        /\ Len(rv.Map[FinalKey(k[1])].Array) = 1 + Len(next.Map[k].Array)

----------------------------------------------------------------------------
(* C22: determinism of Merge.                                              *)

\* C22: for fixed base and incoming trees Merge always returns the same
\* outcome, the same error or the same result tree, whatever the order in
\* which the entries of a Map are visited: the outcome that was returned is
\* the only one Merge can return for these two trees.
C22_Determinism ==
    op = "Merge" =>
        \A out \in Merge(base, next) :
            out.err = err /\ Plain(out.obj) = Plain(rv)

----------------------------------------------------------------------------
(* C23: commands are always resolved.                                      *)

\* Every Map key of the tree, at any depth, is a final key: it carries no
\* directive and no secret token.
RECURSIVE OnlyFinalKeys(_)
OnlyFinalKeys(t) ==
    /\ \A i \in DOMAIN t.Array : OnlyFinalKeys(t.Array[i])
    /\ \A k \in DOMAIN t.Map :
          /\ k = FinalKey(k[1])
          /\ OnlyFinalKeys(t.Map[k])

\* C23: after any successful Merge no Map key of the result, at any depth,
\* still carries a directive or a secret token; in particular when the base
\* is the empty tree the result is what ResolveCommands returns for the
\* incoming tree.
C23_CommandsResolved ==
    (op = "Merge" /\ err = NoErr) =>
        /\ OnlyFinalKeys(rv)
        /\ IsEmptyTree(base) =>
              \E r \in ResolveCommands(next) :
                  r.err = NoErr /\ Plain(r.obj) = Plain(rv)

----------------------------------------------------------------------------
(* C24: secrets do not leak through merging.                               *)

\* The values an incoming tree holds under a key that carries the secret
\* marker.
RECURSIVE MarkedValues(_)
MarkedValues(t) ==
    UNION {MarkedValues(t.Array[i]) : i \in DOMAIN t.Array}
    \cup UNION { IF k[3] = "secret" THEN ValuesOf(t.Map[k]) \ {NilValue}
                 ELSE MarkedValues(t.Map[k])
               : k \in DOMAIN t.Map }

\* The values a reader of the redacted tree gets to see.
Exposed(t) == ValuesOf(ToRedacted(t))

\* C24: after a successful merge, a value that entered under a key carrying
\* the secret marker, or that belongs to a node that was secret in the base,
\* is inside a secret node whenever it is still present in the result:
\* ToRedacted of the result does not expose it.
C24_NoLeak ==
    (op = "Merge" /\ err = NoErr) =>
        Exposed(rv) \cap (SecretValues(base) \cup MarkedValues(next)) = {}

----------------------------------------------------------------------------
(* C25: With is all-or-nothing for the options.                            *)

\* C25: if With(opts...) returns an error, the effective options and the
\* recorded raw option list of the Config are the ones it had before the
\* call; if With succeeds, the recorded raw option list is the previous list
\* followed by opts in order, and the effective options are rebuilt by
\* applying, in order, the always-options, the default options, the options
\* recorded before and then opts.
C25_WithAllOrNothing ==
    ret.method = "With" =>
        /\ ret.err # NoErr =>
              /\ conf.opts = pre.opts
              /\ conf.rawOpts = pre.rawOpts
        /\ ret.err = NoErr =>
              /\ conf.rawOpts = pre.rawOpts \o callArg
              /\ conf.opts =
                    applyAll(alwaysOptions \o DefaultOptions \o pre.rawOpts \o callArg,
                             ZeroOptions).cfg

----------------------------------------------------------------------------
(* C26: ShowOrder after a successful compile.                              *)

\* C26: after every successful compile pass ShowOrder returns exactly the
\* names of the records merged in that pass, in merge order; after a
\* successful pass that processed no record it returns an empty list, even
\* if an earlier pass had merged records, and the stored tree is then the
\* empty tree.
C26_ShowOrder ==
    Compiled =>
        /\ ShowOrder(conf).err = NoErr
        /\ ShowOrder(conf).val = [i \in DOMAIN pass.order |-> pass.order[i].name]
        /\ pass.order = <<>> => IsEmptyTree(conf.tree)

----------------------------------------------------------------------------
(* C27: the frame of a splice.                                             *)

\* The final keys of the keys of an incoming map.
FinalKeysOf(n) == {FinalKey(k[1]) : k \in DOMAIN n.Map}

\* r is a splice of the incoming map n into the base map b as far as the
\* frame goes: the keys of b that no key of n resolves to keep their
\* subtrees, the final keys of n that b does not hold carry the incoming
\* subtrees with their commands resolved, and the keys of r are those of b
\* and the final keys of n.
SpliceFrame(b, n, r) ==
    /\ \A k \in DOMAIN b.Map \ FinalKeysOf(n) :
          k \in DOMAIN r.Map /\ r.Map[k] = b.Map[k]
    /\ \A k \in DOMAIN n.Map :
          (FinalKey(k[1]) \notin DOMAIN b.Map /\
             \A k2 \in DOMAIN n.Map : k2[1] = k[1] => k2 = k) =>
               /\ FinalKey(k[1]) \in DOMAIN r.Map
               /\ \E x \in resolveCommands(n.Map[k], k[3] = "secret") :
                     x.err = NoErr /\ r.Map[FinalKey(k[1])] = x.obj
    /\ DOMAIN r.Map = DOMAIN b.Map \cup FinalKeysOf(n)

\* C27: in a successful Map merge under the default or the splice directive
\* every key of base that is not the final key of an incoming key is in the
\* result with its base subtree unchanged (value, kind, origins and secret
\* flag), every final key of incoming that base did not hold is in the
\* result with the incoming subtree, its commands resolved, and the result's
\* keys are the union of base's keys and incoming's final keys.  Stated for
\* the root of Merge (no directive) when no top-level key carries clear, and
\* for a key with no directive or splice that names a base Map; an incoming
\* subtree is looked at when its key is the only one for its final key.
C27_SpliceFrame ==
    /\ (Merged /\ err = NoErr /\ Kind(base) = Map /\ ~HasClearKey)
       => SpliceFrame(base, next, rv)
    /\ \A k \in DOMAIN next.Map :
          (SameKindAt(k, Map) /\ k[2] \in {"", "splice"})
          => SpliceFrame(Existing(k), next.Map[k], rv.Map[FinalKey(k[1])])

C27_Witness ==
    /\ op = "Merge" /\ err = NoErr /\ Kind(base) = Map /\ ~HasClearKey
    /\ DOMAIN base.Map = {FinalKey("a"), FinalKey("b")}
    /\ DOMAIN next.Map = {Key("a", "", ""), Key("c", "", "secret")}
    /\ DOMAIN rv.Map = {FinalKey("a"), FinalKey("b"), FinalKey("c")}
    /\ rv.Map[FinalKey("b")] = base.Map[FinalKey("b")]
    /\ rv.Map[FinalKey("c")].secret
    /\ rv.Map[FinalKey("c")].Value = "n4"

====
